---- MODULE Spec2Model ----
(***************************************************************************)
(* Binance Futures testnet trading bot: the signed request executor        *)
(* (bot/client.py), the validators (bot/validators.py), the order          *)
(* dispatcher (bot/orders.py) and the two surfaces (cli.py, app.py).       *)
(*                                                                         *)
(* Text is a sequence of one-character strings, so that strip, upper and   *)
(* the number parsers are computed character by character.  A Python value *)
(* is a record [t, s, n]: its type tag, its text and its integer payload.  *)
(***************************************************************************)
EXTENDS Integers, Sequences, FiniteSets, TLC

(***************************************************************************)
(* Bounds of the model.                                                    *)
(***************************************************************************)
\* Length of the texts given to the validators, every text over TextAlphabet
\* up to this length being tried.
MaxTextLen == 3

\* Calls a caller makes on one client with the mapping it holds.
MaxCalls == 2

\* Threads of the process that call into the package at the same time.
MaxThreads == 3

\* get_logger calls of one thread.
MaxLogCalls == 2

\* Requests the web server handles at the same time.
MaxRequests == 2

\* Choices the user makes at the main menu of the interactive mode.
MaxRounds == 2

(***************************************************************************)
(* Text.                                                                   *)
(***************************************************************************)
LowerLetters ==
  <<"a","b","c","d","e","f","g","h","i","j","k","l","m",
    "n","o","p","q","r","s","t","u","v","w","x","y","z">>

UpperLetters ==
  <<"A","B","C","D","E","F","G","H","I","J","K","L","M",
    "N","O","P","Q","R","S","T","U","V","W","X","Y","Z">>

DigitChars == <<"0","1","2","3","4","5","6","7","8","9">>

Whitespace == {" ", "\t"}

IsUpperLetter(c) == \E i \in 1..26 : UpperLetters[i] = c

IsDigit(c) == \E i \in 1..10 : DigitChars[i] = c

DigitVal(c) == (CHOOSE i \in 1..10 : DigitChars[i] = c) - 1

\* str.upper(), one character
UpperChar(c) ==
  IF \E i \in 1..26 : LowerLetters[i] = c
  THEN UpperLetters[CHOOSE i \in 1..26 : LowerLetters[i] = c]
  ELSE c

\* str.lower(), one character
LowerChar(c) ==
  IF \E i \in 1..26 : UpperLetters[i] = c
  THEN LowerLetters[CHOOSE i \in 1..26 : UpperLetters[i] = c]
  ELSE c

\* str.upper()
Upper(s) == [i \in 1..Len(s) |-> UpperChar(s[i])]

\* str.lower()
Lower(s) == [i \in 1..Len(s) |-> LowerChar(s[i])]

\* the part of s from the first to the last of the places in keep
Between(s, keep) ==
  IF keep = {} THEN <<>>
  ELSE SubSeq(s, CHOOSE i \in keep : \A j \in keep : i <= j,
                 CHOOSE i \in keep : \A j \in keep : j <= i)

\* str.strip(): leading and trailing whitespace removed
Strip(s) == Between(s, {i \in 1..Len(s) : s[i] \notin Whitespace})

\* int of a sequence of digit characters
RECURSIVE DigitsVal(_)
DigitsVal(s) ==
  IF s = <<>> THEN 0
  ELSE 10 * DigitsVal(SubSeq(s, 1, Len(s) - 1)) + DigitVal(s[Len(s)])

\* str(n) of an integer n >= 0
RECURSIVE NatText(_)
NatText(n) ==
  IF n < 10 THEN <<DigitChars[n + 1]>>
  ELSE NatText(n \div 10) \o <<DigitChars[(n % 10) + 1]>>

\* str(n) of an integer
IntText(n) == IF n < 0 THEN <<"-">> \o NatText(0 - n) ELSE NatText(n)

(***************************************************************************)
(* Numbers.  A float is [k, neg, ip, fp]: finite (integer part ip and the  *)
(* fraction's digits fp, trailing zeros dropped), nan or inf; k = "none"   *)
(* is Python's None where an Optional[float] is expected.                  *)
(***************************************************************************)
NoFloat == [k |-> "none", neg |-> FALSE, ip |-> 0, fp |-> <<>>]

NaN == [k |-> "nan", neg |-> FALSE, ip |-> 0, fp |-> <<>>]

Inf(neg) == [k |-> "inf", neg |-> neg, ip |-> 0, fp |-> <<>>]

RECURSIVE DropTrailingZeros(_)
DropTrailingZeros(s) ==
  IF s # <<>> /\ s[Len(s)] = "0"
  THEN DropTrailingZeros(SubSeq(s, 1, Len(s) - 1))
  ELSE s

Fin(neg, ip, fp) == [k |-> "fin", neg |-> neg, ip |-> ip, fp |-> DropTrailingZeros(fp)]

\* x == 0.0
IsZero(x) == x.k = "fin" /\ x.ip = 0 /\ x.fp = <<>>

\* x <= 0 (every comparison with nan is False)
LeZero(x) ==
  \/ x.k = "inf" /\ x.neg
  \/ x.k = "fin" /\ (x.neg \/ IsZero(x))

\* x > bound, for an integer bound >= 0
GtInt(x, bound) ==
  \/ x.k = "inf" /\ ~x.neg
  \/ x.k = "fin" /\ ~x.neg /\ (x.ip > bound \/ (x.ip = bound /\ x.fp # <<>>))

\* A result of a call: the exception class raised ("" when none) and the value.
Ok(v) == [exc |-> "", val |-> v]

Raise(e, v) == [exc |-> e, val |-> v]

\* float(text) after the sign: digits with at most one point, at place dot
ParseDecimal(neg, body, dots, dot) ==
  IF /\ \A i \in 1..Len(body) : IsDigit(body[i]) \/ body[i] = "."
     /\ Cardinality(dots) <= 1
     /\ \E i \in 1..Len(body) : IsDigit(body[i])
  THEN Ok(Fin(neg, DigitsVal(SubSeq(body, 1, dot - 1)), SubSeq(body, dot + 1, Len(body))))
  ELSE Raise("ValueError", NoFloat)

\* float(text) after the sign: nan, inf and infinity in any case, or a decimal
ParseUnsigned(neg, body, low, dots) ==
  IF low = <<"n","a","n">> THEN Ok(NaN)
  ELSE IF low = <<"i","n","f">> \/ low = <<"i","n","f","i","n","i","t","y">>
  THEN Ok(Inf(neg))
  ELSE ParseDecimal(neg, body, dots,
                    IF dots = {} THEN Len(body) + 1 ELSE CHOOSE i \in dots : TRUE)

ParseBody(neg, body) ==
  ParseUnsigned(neg, body, Lower(body), {i \in 1..Len(body) : body[i] = "."})

ParseStripped(t) ==
  IF t # <<>> /\ t[1] \in {"+", "-"} THEN ParseBody(t[1] = "-", Tail(t))
  ELSE ParseBody(FALSE, t)

\* float(text): surrounding whitespace and a sign are allowed.  (Exponents
\* and digit-group underscores are outside the model's alphabet.)
ParseFloat(s) == ParseStripped(Strip(s))

IntBody(neg, body) ==
  IF body # <<>> /\ \A i \in 1..Len(body) : IsDigit(body[i])
  THEN Ok(IF neg THEN 0 - DigitsVal(body) ELSE DigitsVal(body))
  ELSE Raise("ValueError", 0)

IntStripped(t) ==
  IF t # <<>> /\ t[1] \in {"+", "-"} THEN IntBody(t[1] = "-", Tail(t))
  ELSE IntBody(FALSE, t)

\* int(text): surrounding whitespace and a sign are allowed, then digits only
ParseInt(s) == IntStripped(Strip(s))

\* str(x) of a float
FloatText(x) ==
  IF x.k = "nan" THEN <<"n","a","n">>
  ELSE (IF x.neg THEN <<"-">> ELSE <<>>) \o
       (IF x.k = "inf" THEN <<"i","n","f">>
        ELSE NatText(x.ip) \o <<".">> \o (IF x.fp = <<>> THEN <<"0">> ELSE x.fp))

(***************************************************************************)
(* Python values as the surfaces receive them.                             *)
(***************************************************************************)
PyNone == [t |-> "none", s |-> <<>>, n |-> 0]

PyStr(s) == [t |-> "str", s |-> s, n |-> 0]

\* a JSON number, held by its text
PyNum(s) == [t |-> "num", s |-> s, n |-> 0]

PyBool(b) == [t |-> "bool", s |-> <<>>, n |-> IF b THEN 1 ELSE 0]

\* a JSON list of n ones
PyList(n) == [t |-> "list", s |-> <<>>, n |-> n]

\* a JSON object of n keys
PyDict(n) == [t |-> "dict", s |-> <<>>, n |-> n]

\* a key the mapping does not hold
Absent == [t |-> "absent", s |-> <<>>, n |-> 0]

\* bool(v)
Truthy(v) ==
  CASE v.t = "str" -> v.s # <<>>
    [] v.t = "num" -> ~IsZero(ParseFloat(v.s).val)
    [] v.t \in {"bool", "list", "dict"} -> v.n > 0
    [] OTHER -> FALSE

\* str(v)
PyText(v) ==
  CASE v.t = "str" -> v.s
    [] v.t = "num" -> v.s
    [] v.t = "none" -> <<"N","o","n","e">>
    [] v.t = "bool" -> IF v.n = 1 THEN <<"T","r","u","e">> ELSE <<"F","a","l","s","e">>
    [] v.t = "list" -> IF v.n = 0 THEN <<"[","]">> ELSE <<"[","1","]">>
    [] OTHER -> IF v.n = 0 THEN <<"{","}">> ELSE <<"{","'","a","'",":"," ","1","}">>

\* float(v)
PyFloat(v) ==
  CASE v.t \in {"str", "num"} -> ParseFloat(v.s)
    [] v.t = "bool" -> Ok(Fin(FALSE, v.n, <<>>))
    [] OTHER -> Raise("TypeError", NoFloat)

\* mapping.get(key, default)
Get(v, default) == IF v.t = "absent" THEN default ELSE v

\* x or None
OrNone(v) == IF Truthy(v) THEN v ELSE PyNone

(***************************************************************************)
(* bot/validators.py.  Each validator returns the normalised value or      *)
(* raises click.BadParameter.                                              *)
(***************************************************************************)
ValidSides == {<<"B","U","Y">>, <<"S","E","L","L">>}

MARKET == <<"M","A","R","K","E","T">>

LIMIT == <<"L","I","M","I","T">>

STOP_MARKET == <<"S","T","O","P","_","M","A","R","K","E","T">>

STOP_LIMIT == <<"S","T","O","P","_","L","I","M","I","T">>

ValidTypes == {MARKET, LIMIT, STOP_MARKET, STOP_LIMIT}

GTC == <<"G","T","C">>

ValidTif == {GTC, <<"I","O","C">>, <<"F","O","K">>}

SymbolMinLen == 2

SymbolMaxLen == 20

MaxQuantity == 1000000

\* re.compile(r"^[A-Z]{2,20}$").match
\* A pattern without the upper limit, ^[A-Z]{2,}$: C14 tells it from the
\* pattern of validate_symbol
SymbolPatternNoMax(s) ==
  /\ Len(s) >= SymbolMinLen
  /\ \A i \in 1..Len(s) : IsUpperLetter(s[i])

SymbolPattern(s) ==
  /\ Len(s) >= SymbolMinLen
  /\ Len(s) <= SymbolMaxLen
  /\ \A i \in 1..Len(s) : IsUpperLetter(s[i])

\* the pattern check of validate_symbol on the normalised text
CheckSymbol(s) == IF ~SymbolPattern(s) THEN Raise("BadParameter", s) ELSE Ok(s)

validate_symbol(symbol) == CheckSymbol(Upper(Strip(symbol)))

CheckSide(s) == IF s \notin ValidSides THEN Raise("BadParameter", s) ELSE Ok(s)

validate_side(side) == CheckSide(Upper(Strip(side)))

CheckOrderType(s) == IF s \notin ValidTypes THEN Raise("BadParameter", s) ELSE Ok(s)

validate_order_type(order_type) == CheckOrderType(Upper(Strip(order_type)))

\* the range checks of validate_quantity on the result of float(quantity)
CheckQuantity(parsed) ==
  IF parsed.exc # "" THEN Raise("BadParameter", NoFloat)
  ELSE IF LeZero(parsed.val) THEN Raise("BadParameter", NoFloat)
  ELSE IF GtInt(parsed.val, MaxQuantity) THEN Raise("BadParameter", NoFloat)
  ELSE Ok(parsed.val)

validate_quantity(quantity) == CheckQuantity(ParseFloat(quantity))

\* the checks of validate_price on the result of float(price)
CheckPrice(parsed) ==
  IF parsed.exc # "" THEN Raise("BadParameter", NoFloat)
  ELSE IF LeZero(parsed.val) THEN Raise("BadParameter", NoFloat)
  ELSE Ok(parsed.val)

\* price is None or a str
validate_price(price, order_type) ==
  IF order_type \in {MARKET, STOP_MARKET}
  THEN IF price.t # "none" THEN Raise("BadParameter", NoFloat) ELSE Ok(NoFloat)
  ELSE IF price.t = "none" THEN Raise("BadParameter", NoFloat)
  ELSE CheckPrice(ParseFloat(price.s))

CheckTif(s) == IF s \notin ValidTif THEN Raise("BadParameter", s) ELSE Ok(s)

\* tif is None or a str
validate_time_in_force(tif) ==
  IF ~Truthy(tif) THEN Ok(GTC) ELSE CheckTif(Upper(Strip(tif.s)))

(***************************************************************************)
(* Exceptions.  The classes of the builtins, of requests and of click that *)
(* the handlers name in their except clauses: requests.RequestException    *)
(* derives from IOError, which is OSError, which EnvironmentError names;   *)
(* the JSONDecodeError of Response.json() derives from InvalidJSONError, a *)
(* RequestException, and from json.JSONDecodeError, a ValueError.          *)
(***************************************************************************)
ExcParents(e) ==
  CASE e \in {"HTTPError", "ConnectionError", "Timeout"} -> {"RequestException"}
    [] e = "RequestException" -> {"EnvironmentError"}
    [] e = "JSONDecodeError" -> {"RequestException", "ValueError"}
    [] e = "BadParameter" -> {"ClickException"}
    [] e = "Exception" -> {}
    [] OTHER -> {"Exception"}

\* isinstance(e, cls): what "except cls" catches
RECURSIVE IsInstance(_, _)
IsInstance(e, cls) ==
  \/ e = cls
  \/ \E p \in ExcParents(e) : IsInstance(p, cls)

(***************************************************************************)
(* bot/client.py.  A parameter mapping is the sequence of its (key, value) *)
(* pairs in insertion order; a value is <<"str", text>>, <<"int", n>> or   *)
(* <<"hmac", secret, message>>, the hex digest of an HMAC-SHA256.          *)
(***************************************************************************)
HasKey(d, k) == \E i \in 1..Len(d) : d[i][1] = k

Lookup(d, k) == d[CHOOSE i \in 1..Len(d) : d[i][1] = k][2]

Keys(d) == {d[i][1] : i \in 1..Len(d)}

\* d[k] = v: a key the dict holds keeps its place, a new key goes last
DictSet(d, k, v) ==
  IF HasKey(d, k)
  THEN [i \in 1..Len(d) |-> IF d[i][1] = k THEN <<k, v>> ELSE d[i]]
  ELSE Append(d, <<k, v>>)

\* urlencode(params), and the encoding requests gives a mapping on the wire:
\* the pairs in the mapping's order, each value by its str()
UrlEncode(d) ==
  [i \in 1..Len(d) |->
     <<d[i][1],
       CASE d[i][2][1] = "int" -> <<"txt", IntText(d[i][2][2])>>
         [] d[i][2][1] = "str" -> <<"txt", d[i][2][2]>>
         [] OTHER -> d[i][2]>>]

\* hmac.new(secret, message, sha256).hexdigest()
Hmac(secret, message) == <<"hmac", secret, message>>

\* os.getenv(name, "")
GetEnv(v) == IF v.t = "absent" THEN <<>> ELSE v.s

\* A constructor that checks the key only: C2 tells it from __init__
InitClientKeyOnly(self) ==
  IF self.api_key = <<>> THEN Raise("EnvironmentError", self)
  ELSE Ok(self)

\* BinanceFuturesClient.__init__ once the environment is read
InitClient(self) ==
  IF self.api_key = <<>> THEN Raise("EnvironmentError", self)
  ELSE IF self.api_secret = <<>> THEN Raise("EnvironmentError", self)
  ELSE Ok(self)

\* BinanceFuturesClient(): the client, or EnvironmentError
NewClient(env) ==
  InitClient([api_key |-> GetEnv(env.key), api_secret |-> GetEnv(env.secret)])

\* A mask that leaves the mapping as it is: C19 tells it from _mask_params
MaskNothing(params) == params

\* _mask_params
MaskParams(params) ==
  IF HasKey(params, "signature")
  THEN DictSet(params, "signature", <<"str", <<"*","*","*">>>>)
  ELSE params

\* _sign after the timestamp is set
SignStamped(self, stamped) ==
  DictSet(stamped, "signature", Hmac(self.api_secret, UrlEncode(stamped)))

\* _sign: the mapping, changed in place, at time now (ms)
Sign(self, params, now) ==
  SignStamped(self, DictSet(params, "timestamp", <<"int", now>>))

\* get / post / delete from the log record to the session call, with the
\* mapping p as _sign left it
Prepared(self, method, endpoint, p, signed, now) ==
  [params |-> p,
   logged |-> MaskParams(p),
   wire |-> [method |-> method, endpoint |-> endpoint, apikey |-> self.api_key,
             signed |-> signed, params |-> UrlEncode(p), at |-> now]]

\* A call that signs whatever the flag says: C20 tells it from get/post/delete
RequestAlwaysSigned(self, method, endpoint, params, signed, now) ==
  Prepared(self, method, endpoint, Sign(self, params, now), signed, now)

\* get / post / delete up to the session call: the mapping as the call leaves
\* it, the log record and the request put on the wire
Request(self, method, endpoint, params, signed, now) ==
  Prepared(self, method, endpoint,
           IF signed THEN Sign(self, params, now) ELSE params, signed, now)

\* _handle_response
HandleResponse(response) ==
  IF response.status # 200
  THEN IF response.fmt = "text"
       THEN Raise("HTTPError",
                  [status |-> response.status, code |-> "N/A", msg |-> response.text])
       ELSE IF response.fmt # "dict"
       THEN Raise("AttributeError", [status |-> 0, code |-> "", msg |-> ""])
       ELSE Raise("HTTPError",
                  [status |-> response.status,
                   code |-> IF response.hasCode THEN response.code ELSE "N/A",
                   msg |-> IF response.hasMsg THEN response.msg ELSE response.text])
  ELSE IF response.fmt = "text"
       THEN Raise("JSONDecodeError", [status |-> 0, code |-> "", msg |-> ""])
       ELSE Ok(response)

\* x >= 0, a test that keeps zero balances: C16 tells it from x > 0
GeZero(x) ==
  \/ x.k = "inf" /\ ~x.neg
  \/ x.k = "fin" /\ (~x.neg \/ IsZero(x))

\* x > 0 (every comparison with nan is False)
GtZero(x) ==
  \/ x.k = "inf" /\ ~x.neg
  \/ x.k = "fin" /\ ~x.neg /\ ~IsZero(x)

\* get_account_balance, one step of the list comprehension: parsed is
\* float(asset.get("walletBalance", 0)), rest the result for the later assets
KeepIf(asset, parsed, rest) ==
  IF parsed.exc # "" THEN Raise(parsed.exc, <<>>)
  ELSE IF rest.exc # "" THEN rest
  ELSE Ok(IF GtZero(parsed.val) THEN <<asset>> \o rest.val ELSE rest.val)

\* get_account_balance: the list comprehension over assets
RECURSIVE Balances(_)
Balances(assets) ==
  IF assets = <<>> THEN Ok(<<>>)
  ELSE KeepIf(Head(assets),
              PyFloat(Get(Head(assets).bal, PyNum(<<"0">>))),
              Balances(Tail(assets)))

\* get_account_balance on the mapping self.get returned
AccountBalance(data) ==
  IF data.fmt # "dict" THEN Raise("AttributeError", <<>>)
  ELSE Balances(data.items)

\* get_exchange_info: the scan of the symbols for wanted = symbol.upper()
RECURSIVE FirstMatch(_, _)
FirstMatch(symbols, wanted) ==
  IF symbols = <<>> THEN Raise("ValueError", <<>>)
  ELSE IF Head(symbols).name = wanted THEN Ok(Head(symbols))
  ELSE FirstMatch(Tail(symbols), wanted)

\* get_exchange_info on the mapping self.get returned
ExchangeInfo(data, symbol) ==
  IF data.fmt # "dict" THEN Raise("AttributeError", <<>>)
  ELSE FirstMatch(data.items, Upper(symbol))

(***************************************************************************)
(* bot/orders.py.                                                          *)
(***************************************************************************)
\* A dispatch that submits whatever price and stop price it is given, and
\* refuses what place_order refuses: C6 tells it from place_order
TypedParamsAll(type, base, price, time_in_force, stop_price) ==
  IF type \in {LIMIT, STOP_LIMIT} /\ price.k = "none" THEN Raise("ValueError", <<>>)
  ELSE IF type \in {STOP_MARKET, STOP_LIMIT} /\ stop_price.k = "none"
  THEN Raise("ValueError", <<>>)
  ELSE Ok(base
          \o (IF price.k = "none" THEN <<>>
              ELSE << <<"price", <<"str", FloatText(price)>>>> >>)
          \o (IF stop_price.k = "none" THEN <<>>
              ELSE << <<"stopPrice", <<"str", FloatText(stop_price)>>>> >>)
          \o (IF type \in {LIMIT, STOP_LIMIT}
              THEN << <<"timeInForce", <<"str", time_in_force>>>> >> ELSE <<>>))

\* A dispatch that asks a STOP_LIMIT order for its price only: C7 tells it
\* from place_order
TypedParamsPriceOnly(type, base, price, time_in_force, stop_price) ==
  IF type \in {LIMIT, STOP_LIMIT} /\ price.k = "none" THEN Raise("ValueError", <<>>)
  ELSE IF type = STOP_MARKET /\ stop_price.k = "none" THEN Raise("ValueError", <<>>)
  ELSE Ok(base
          \o (IF type \in {LIMIT, STOP_LIMIT}
              THEN << <<"price", <<"str", FloatText(price)>>>> >> ELSE <<>>)
          \o (IF type \in {STOP_MARKET, STOP_LIMIT}
              THEN << <<"stopPrice", <<"str", FloatText(stop_price)>>>> >> ELSE <<>>)
          \o (IF type \in {LIMIT, STOP_LIMIT}
              THEN << <<"timeInForce", <<"str", time_in_force>>>> >> ELSE <<>>))

\* OrderManager.place_order, lines 70-88, on the base parameters
TypedParams(type, base, price, time_in_force, stop_price) ==
  IF type = LIMIT
  THEN IF price.k = "none" THEN Raise("ValueError", <<>>)
       ELSE Ok(base \o << <<"price", <<"str", FloatText(price)>>>>,
                          <<"timeInForce", <<"str", time_in_force>>>> >>)
  ELSE IF type = STOP_MARKET
  THEN IF stop_price.k = "none" THEN Raise("ValueError", <<>>)
       ELSE Ok(base \o << <<"stopPrice", <<"str", FloatText(stop_price)>>>> >>)
  ELSE IF type = STOP_LIMIT
  THEN IF price.k = "none" THEN Raise("ValueError", <<>>)
       ELSE IF stop_price.k = "none" THEN Raise("ValueError", <<>>)
       ELSE Ok(base \o << <<"price", <<"str", FloatText(price)>>>>,
                          <<"stopPrice", <<"str", FloatText(stop_price)>>>>,
                          <<"timeInForce", <<"str", time_in_force>>>> >>)
  ELSE Ok(base)

\* OrderManager.place_order up to client.post: the parameters, or ValueError
OrderParams(symbol, side, order_type, quantity, price, time_in_force, stop_price) ==
  TypedParams(Upper(order_type),
              << <<"symbol", <<"str", Upper(symbol)>>>>,
                 <<"side", <<"str", Upper(side)>>>>,
                 <<"type", <<"str", Upper(order_type)>>>>,
                 <<"quantity", <<"str", FloatText(quantity)>>>> >>,
              price, time_in_force, stop_price)

\* get_order and cancel_order: the parameters
OrderIdParams(symbol, order_id) ==
  << <<"symbol", <<"str", Upper(symbol)>>>>, <<"orderId", <<"int", order_id>>>> >>

(***************************************************************************)
(* The update time of an order: datetime.fromtimestamp(ms / 1000, utc) and *)
(* strftime("%Y-%m-%d %H:%M:%S UTC").  The milliseconds are kept as digits, *)
(* since they do not fit a machine integer of the checker.                 *)
(***************************************************************************)
SecondsPerDay == 86400

\* days from 0000-03-01 to 1970-01-01, days of 400 years, of 100 years, of 4
\* years less one, and of 400 years less one (the civil calendar)
EpochShift == 719468

DaysPerEra == 146097

\* the last day the datetime type holds, 9999-12-31, counted from 1970-01-01
MaxDay == 2932896

Pad2(n) == IF n < 10 THEN <<"0">> \o NatText(n) ELSE NatText(n)

DateText(y, m, d) == NatText(y) \o <<"-">> \o Pad2(m) \o <<"-">> \o Pad2(d)

CivilMonth(y, doy, mp) ==
  DateText(IF mp < 10 THEN y ELSE y + 1,
           IF mp < 10 THEN mp + 3 ELSE mp - 9,
           doy - ((153 * mp + 2) \div 5) + 1)

CivilDoy(y, doy) == CivilMonth(y, doy, (5 * doy + 2) \div 153)

CivilYoe(era, doe, yoe) ==
  CivilDoy(yoe + era * 400, doe - (365 * yoe + (yoe \div 4) - (yoe \div 100)))

CivilDoe(era, doe) ==
  CivilYoe(era, doe,
           (doe - (doe \div 1460) + (doe \div 36524) - (doe \div 146096)) \div 365)

\* the date of the day that is days after 1970-01-01
CivilFromDays(days) ==
  CivilDoe((days + EpochShift) \div DaysPerEra, (days + EpochShift) % DaysPerEra)

\* the time of day, sod seconds after midnight
ClockText(sod) ==
  Pad2(sod \div 3600) \o <<":">> \o Pad2((sod % 3600) \div 60) \o <<":">> \o Pad2(sod % 60)

\* digits divided by 86400, digit by digit: <<quotient, remainder>>
RECURSIVE DivDay(_, _, _)
DivDay(digits, q, r) ==
  IF digits = <<>> THEN <<q, r>>
  ELSE DivDay(Tail(digits),
              q * 10 + ((r * 10 + DigitVal(Head(digits))) \div SecondsPerDay),
              (r * 10 + DigitVal(Head(digits))) % SecondsPerDay)

\* strftime of the moment qr[1] days and qr[2] seconds after the epoch
StampText(qr) ==
  IF qr[1] > MaxDay THEN Raise("ValueError", <<>>)
  ELSE Ok(CivilFromDays(qr[1]) \o <<" ">> \o ClockText(qr[2]) \o <<" ","U","T","C">>)

\* fromtimestamp(seconds).strftime(..) for seconds >= 0 given by its digits:
\* beyond time_t OverflowError, beyond what gmtime holds OSError, beyond the
\* year 9999 ValueError
FromTimestamp(sec) ==
  IF Len(sec) > 19 THEN Raise("OverflowError", <<>>)
  ELSE IF Len(sec) > 16 THEN Raise("OSError", <<>>)
  ELSE IF Len(sec) > 12 THEN Raise("ValueError", <<>>)
  ELSE StampText(DivDay(sec, 0, 0))

\* the whole seconds of ms / 1000, ms given by its digits
WholeSeconds(ms) == IF Len(ms) <= 3 THEN <<"0">> ELSE SubSeq(ms, 1, Len(ms) - 3)

\* datetime.fromtimestamp(update_ms / 1000, tz=utc).strftime(..): dividing
\* what is no number is a TypeError
TimeText(update_ms) ==
  IF update_ms.t = "num" THEN FromTimestamp(WholeSeconds(update_ms.s))
  ELSE Raise("TypeError", <<>>)

\* OrderManager.format_order_result: the Time line, on the result of the
\* conversion; it catches OSError, OverflowError and ValueError only
FormatTime(update_ms, converted) ==
  IF converted.exc = "" THEN converted
  ELSE IF converted.exc \in {"OSError", "OverflowError", "ValueError"}
  THEN Ok(PyText(update_ms))
  ELSE converted

\* OrderManager.format_order_result(order): the text, by its Time line
format_order_result(order) ==
  FormatTime(Get(order.updateTime, PyNum(<<"0">>)),
             TimeText(Get(order.updateTime, PyNum(<<"0">>))))

\* app.py, updateTimeHuman: every exception of the conversion is caught
HumanTime(update_ms, converted) ==
  IF converted.exc = "" THEN converted.val ELSE PyText(update_ms)

\* app.py api_place_order / api_get_order, lines 176-182: result with
\* result["updateTimeHuman"] set
WithHumanTime(result) ==
  [result EXCEPT !.human = HumanTime(Get(result.updateTime, PyNum(<<"0">>)),
                                     TimeText(Get(result.updateTime, PyNum(<<"0">>))))]

(***************************************************************************)
(* The surfaces.  A handler's outcome is [status, exc, err, val]: the HTTP *)
(* status (web) or exit status (CLI), the class of the exception that      *)
(* ended it ("" when none), the remote error's fields and the value.       *)
(***************************************************************************)
NoErr == [status |-> 0, code |-> "", msg |-> ""]

NoResponse ==
  [net |-> "", status |-> 0, fmt |-> "none", hasCode |-> FALSE, code |-> "",
   hasMsg |-> FALSE, msg |-> "", text |-> "", items |-> <<>>,
   updateTime |-> [t |-> "absent", s |-> <<>>, n |-> 0], human |-> <<>>]

Outcome(status, exc, err, val) ==
  [status |-> status, exc |-> exc, err |-> err, val |-> val]

NoOutcome == Outcome(0, "", NoErr, NoResponse)

NoArgs ==
  [symbol |-> <<>>, side |-> <<>>, order_type |-> <<>>, quantity |-> NoFloat,
   price |-> NoFloat, tif |-> <<>>, stop_price |-> NoFloat]

NoClient == [api_key |-> <<>>, api_secret |-> <<>>]

\* app.py: the except clauses of the three API handlers, in their order
WebStatus(exc) ==
  IF IsInstance(exc, "EnvironmentError") THEN 503
  ELSE IF IsInstance(exc, "HTTPError") THEN 502
  ELSE 500

\* app.py api_place_order, lines 154-156, on the result of float(raw_stop)
WebStopParsed(parsed) ==
  IF parsed.exc # "" THEN parsed
  ELSE IF LeZero(parsed.val) THEN Raise("Returned", NoFloat)
  ELSE parsed

\* app.py api_place_order, the stop price of lines 150-156: the parsed value,
\* or the exception raised ("Returned" for the early return of _error)
WebStopPrice(order_type, raw_stop) ==
  IF order_type \in {STOP_MARKET, STOP_LIMIT}
  THEN IF raw_stop.t = "none" THEN Raise("Returned", NoFloat)
       ELSE WebStopParsed(PyFloat(raw_stop))
  ELSE Ok(NoFloat)

\* A validation that ended the handler with status st on exception e
Rejected(st, e) == [status |-> st, exc |-> e, args |-> NoArgs]

\* A validation that goes on to the order whatever the time in force: C1
\* tells it from the handlers' validation
ValidatedAnyTif(symbol, side, order_type, qty, parsed_price, tif, parsed_stop, st, other) ==
  LET failed(e) == Rejected(IF e \in {"BadParameter", "ValueError", "Returned"}
                            THEN st ELSE other, e)
  IN IF symbol.exc # "" THEN failed(symbol.exc)
     ELSE IF side.exc # "" THEN failed(side.exc)
     ELSE IF order_type.exc # "" THEN failed(order_type.exc)
     ELSE IF qty.exc # "" THEN failed(qty.exc)
     ELSE IF parsed_price.exc # "" THEN failed(parsed_price.exc)
     ELSE IF parsed_stop.exc # "" THEN failed(parsed_stop.exc)
     ELSE [status |-> 0, exc |-> "",
           args |-> [symbol |-> symbol.val, side |-> side.val,
                     order_type |-> order_type.val, quantity |-> qty.val,
                     price |-> parsed_price.val, tif |-> tif.val,
                     stop_price |-> parsed_stop.val]]

\* The first of the checks that failed decides; status st for a failure the
\* handler reports, other for one it does not catch
Validated(symbol, side, order_type, qty, parsed_price, tif, parsed_stop, st, other) ==
  LET failed(e) == Rejected(IF e \in {"BadParameter", "ValueError", "Returned"}
                            THEN st ELSE other, e)
  IN IF symbol.exc # "" THEN failed(symbol.exc)
     ELSE IF side.exc # "" THEN failed(side.exc)
     ELSE IF order_type.exc # "" THEN failed(order_type.exc)
     ELSE IF qty.exc # "" THEN failed(qty.exc)
     ELSE IF parsed_price.exc # "" THEN failed(parsed_price.exc)
     ELSE IF tif.exc # "" THEN failed(tif.exc)
     ELSE IF parsed_stop.exc # "" THEN failed(parsed_stop.exc)
     ELSE [status |-> 0, exc |-> "",
           args |-> [symbol |-> symbol.val, side |-> side.val,
                     order_type |-> order_type.val, quantity |-> qty.val,
                     price |-> parsed_price.val, tif |-> tif.val,
                     stop_price |-> parsed_stop.val]]

\* str(raw) if raw is not None else None
TextOrNone(raw) == IF raw.t # "none" THEN PyStr(PyText(raw)) ELSE PyNone

\* app.py api_place_order, lines 139-156, with the order type validated
WebValidateTyped(f, order_type) ==
  Validated(validate_symbol(PyText(Get(f.symbol, PyStr(<<>>)))),
            validate_side(PyText(Get(f.side, PyStr(<<>>)))),
            order_type,
            validate_quantity(PyText(Get(f.quantity, PyStr(<<>>)))),
            validate_price(TextOrNone(OrNone(Get(f.price, PyNone))),
                           IF order_type.val = STOP_LIMIT THEN LIMIT ELSE order_type.val),
            validate_time_in_force(PyStr(PyText(Get(f.tif, PyStr(GTC))))),
            WebStopPrice(order_type.val, OrNone(Get(f.stop_price, PyNone))),
            400, 500)

\* app.py api_place_order, lines 127-161: status 0 and the validated
\* arguments, or the status the handler answers without going further
\* (data.get of a body that is no mapping is an AttributeError nothing catches)
WebValidate(body, f) ==
  IF Truthy(body) /\ body.t # "dict" THEN Rejected(500, "AttributeError")
  ELSE WebValidateTyped(f, validate_order_type(PyText(Get(f.type, PyStr(<<>>)))))

\* app.py api_get_order, lines 208-211, on the two results
QueryValidated(symbol, order_id) ==
  IF symbol.exc # ""
  THEN [status |-> 400, exc |-> symbol.exc, symbol |-> <<>>, order_id |-> 0]
  ELSE IF order_id.exc # ""
  THEN [status |-> 400, exc |-> order_id.exc, symbol |-> <<>>, order_id |-> 0]
  ELSE [status |-> 0, exc |-> "", symbol |-> symbol.val, order_id |-> order_id.val]

\* app.py api_get_order, lines 204-211
WebValidateQuery(q) ==
  QueryValidated(validate_symbol(Get(q.symbol, PyStr(<<>>)).s),
                 ParseInt(Get(q.order_id, PyStr(<<>>)).s))

\* cli.py order_status: click converts --order-id with int() before the
\* command runs and ends with exit status 2 when it cannot; the command then
\* validates the symbol, lines 308-312
CliQueryValidated(symbol, order_id) ==
  IF order_id.exc # ""
  THEN [status |-> 2, exc |-> "BadParameter", symbol |-> <<>>, order_id |-> 0]
  ELSE IF symbol.exc # ""
  THEN [status |-> 1, exc |-> symbol.exc, symbol |-> <<>>, order_id |-> 0]
  ELSE [status |-> 0, exc |-> "", symbol |-> symbol.val, order_id |-> order_id.val]

\* cli.py order_status, lines 295-312, on the two options
CliValidateQuery(q) ==
  CliQueryValidated(validate_symbol(q.symbol.s), ParseInt(q.order_id.s))

\* cli.py _validate_stop_price; stop_price is None or a str
CliStopPrice(stop_price, order_type) ==
  IF order_type \notin {STOP_MARKET, STOP_LIMIT} THEN Ok(NoFloat)
  ELSE IF stop_price.t = "none" THEN Raise("BadParameter", NoFloat)
  ELSE CheckPrice(ParseFloat(stop_price.s))

\* cli.py place_order, lines 226-234, with the order type validated
CliValidateTyped(f, order_type) ==
  Validated(validate_symbol(f.symbol.s),
            validate_side(f.side.s),
            order_type,
            validate_quantity(f.quantity.s),
            validate_price(f.price,
                           IF order_type.val # STOP_LIMIT THEN order_type.val ELSE LIMIT),
            validate_time_in_force(f.tif),
            CliStopPrice(f.stop_price, order_type.val),
            1, 1)

\* cli.py place_order, lines 225-237: status 0 and the validated arguments,
\* or exit status 1
CliValidate(f) == CliValidateTyped(f, validate_order_type(f.type.s))

(***************************************************************************)
(* Inputs: the environment, the invocations and the exchange's answers.    *)
(***************************************************************************)
BTC == <<"b","t","c">>

ETHUSDT == <<"e","t","h","u","s","d","t">>

BTCUSDT == <<"B","T","C","U","S","D","T">>

ApiKey == PyStr(<<"k","1">>)

ApiSecret == PyStr(<<"s","1">>)

\* BINANCE_API_KEY and BINANCE_API_SECRET: set, set to the empty string, unset
Environments ==
  { [key |-> ApiKey, secret |-> ApiSecret],
    [key |-> Absent, secret |-> ApiSecret],
    [key |-> ApiKey, secret |-> PyStr(<<>>)] }

Fields(symbol, side, type, quantity, price, tif, stop_price) ==
  [symbol |-> symbol, side |-> side, type |-> type, quantity |-> quantity,
   price |-> price, tif |-> tif, stop_price |-> stop_price]

NoFields == Fields(Absent, Absent, Absent, Absent, Absent, Absent, Absent)

NoQuery == [symbol |-> Absent, order_id |-> Absent]

Invocation(op, body, f, q, args) ==
  [op |-> op, body |-> body, f |-> f, q |-> q, args |-> args]

TypeTexts == {<<"m","a","r","k","e","t">>, LIMIT, STOP_MARKET, STOP_LIMIT, <<"F","O","O">>}

\* POST /api/order with a JSON object as body
WebPlaceObjects ==
  { Invocation("web_place", PyDict(7), Fields(sy, sd, PyStr(ty), qt, pr, tf, st), NoQuery, NoArgs) :
      sy \in {PyStr(BTC), PyStr(<<"B","1">>), PyNone, PyList(1)},
      sd \in {PyStr(<<" ","s","e","l","l">>), PyStr(<<"h","o","l","d">>)},
      ty \in TypeTexts,
      qt \in {PyStr(<<"2",".","5">>), PyNum(<<"1">>), PyStr(<<"0">>)},
      pr \in {Absent, PyStr(<<"3","0","0","0">>), PyNum(<<"0">>), PyList(1)},
      tf \in {Absent, PyStr(<<"i","o","c">>), PyNone, PyStr(<<>>)},
      st \in {Absent, PyStr(<<"2","9","5","0">>), PyStr(<<"a","b","c">>), PyList(1),
              PyStr(<<"-","1">>)} }
  \cup
  { Invocation("web_place", PyDict(7),
               Fields(PyStr(ETHUSDT), PyStr(<<"s","e","l","l">>), PyStr(STOP_LIMIT),
                      PyStr(<<"2",".","5">>), PyStr(<<"3","0","0","0">>), Absent,
                      PyStr(<<"2","9","5","0">>)), NoQuery, NoArgs),
    Invocation("web_place", PyDict(7),
               Fields(PyStr(BTCUSDT), PyStr(<<"B","U","Y">>), PyStr(LIMIT),
                      PyNum(<<"0",".","0","1">>), PyNum(<<"5","0","0","0","0">>), PyStr(GTC),
                      Absent), NoQuery, NoArgs) }

\* POST /api/order with a body that is no JSON object: a list, a number, a
\* string, null or an empty list, or no JSON at all (get_json gives None)
WebPlaceOthers ==
  { Invocation("web_place", b, NoFields, NoQuery, NoArgs) :
      b \in {PyList(1), PyNum(<<"5">>), PyStr(<<"x">>), PyNone, PyList(0), PyDict(0)} }

\* GET /api/order?symbol=..&order_id=..
WebGetOrders ==
  { Invocation("web_get_order", PyNone, NoFields, [symbol |-> sy, order_id |-> oid], NoArgs) :
      sy \in {PyStr(BTC), PyStr(<<"B","1">>), Absent},
      oid \in {PyStr(<<"4","2">>), PyStr(<<"1",".","5">>), PyStr(<<"a">>), Absent} }

\* cli.py order-status --symbol .. --order-id ..
CliGetOrders ==
  { Invocation("cli_get_order", PyNone, NoFields, [symbol |-> sy, order_id |-> oid], NoArgs) :
      sy \in {PyStr(BTC), PyStr(<<"B","1">>), PyStr(<<>>)},
      oid \in {PyStr(<<"4","2">>), PyStr(<<"1",".","5">>), PyStr(<<"a">>)} }

WebBalances == { Invocation("web_balance", PyNone, NoFields, NoQuery, NoArgs) }

\* cli.py place-order: click hands every option over as a str, --price and
\* --stop-price as None when not given, --tif as "GTC" when not given
CliPlaceOrders ==
  { Invocation("cli_place", PyNone, Fields(sy, sd, PyStr(ty), qt, pr, tf, st), NoQuery, NoArgs) :
      sy \in {PyStr(BTC), PyStr(<<"B","1">>)},
      sd \in {PyStr(<<" ","s","e","l","l">>), PyStr(<<"h","o","l","d">>)},
      ty \in TypeTexts,
      qt \in {PyStr(<<"2",".","5">>), PyStr(<<"0">>), PyStr(<<"x">>)},
      pr \in {PyNone, PyStr(<<"3","0","0","0">>), PyStr(<<"0">>), PyStr(<<>>)},
      tf \in {PyStr(GTC), PyStr(<<"i","o","c">>), PyStr(<<"d","a","y">>), PyStr(<<>>)},
      st \in {PyNone, PyStr(<<"2","9","5","0">>), PyStr(<<"a","b","c">>), PyStr(<<"-","1">>)} }
  \cup
  { Invocation("cli_place", PyNone,
               Fields(PyStr(ETHUSDT), PyStr(<<"s","e","l","l">>), PyStr(STOP_LIMIT),
                      PyStr(<<"2",".","5">>), PyStr(<<"3","0","0","0">>), PyStr(GTC),
                      PyStr(<<"2","9","5","0">>)), NoQuery, NoArgs),
    Invocation("cli_place", PyNone,
               Fields(PyStr(BTCUSDT), PyStr(<<"B","U","Y">>), PyStr(LIMIT),
                      PyStr(<<"0",".","0","1">>), PyStr(<<"5","0","0","0","0">>), PyStr(GTC),
                      PyNone), NoQuery, NoArgs) }

\* OrderManager.place_order, get_order and cancel_order called directly
ManagerCalls ==
  { Invocation(op, PyNone, NoFields, NoQuery,
               [symbol |-> BTC, side |-> <<"b","u","y">>, order_type |-> ty,
                quantity |-> Fin(FALSE, 1, <<>>), price |-> pr, tif |-> GTC,
                stop_price |-> st]) :
      op \in {"place_order"},
      ty \in TypeTexts \cup {<<"l","i","m","i","t">>},
      pr \in {NoFloat, Fin(FALSE, 5, <<>>)},
      st \in {NoFloat, Fin(FALSE, 7, <<"5">>)} }
  \cup
  { Invocation("place_order", PyNone, NoFields, NoQuery,
               [symbol |-> BTCUSDT, side |-> <<"B","U","Y">>, order_type |-> LIMIT,
                quantity |-> Fin(FALSE, 0, <<"0","1">>), price |-> Fin(FALSE, 50000, <<>>),
                tif |-> GTC, stop_price |-> NoFloat]),
    Invocation("place_order", PyNone, NoFields, NoQuery,
               [symbol |-> ETHUSDT, side |-> <<"s","e","l","l">>, order_type |-> STOP_LIMIT,
                quantity |-> Fin(FALSE, 2, <<"5">>), price |-> Fin(FALSE, 3000, <<>>),
                tif |-> GTC, stop_price |-> Fin(FALSE, 2950, <<>>)]) }
  \cup
  { Invocation(op, PyNone, NoFields, NoQuery,
               [symbol |-> BTC, side |-> <<>>, order_type |-> <<>>, quantity |-> NoFloat,
                price |-> NoFloat, tif |-> <<>>, stop_price |-> NoFloat]) :
      op \in {"get_order", "cancel_order"} }

\* get, post and delete called directly by a caller that holds a mapping
ClientSessions == { Invocation("client", PyNone, NoFields, NoQuery, NoArgs) }

\* get_account_balance and get_exchange_info called directly
MethodCalls ==
  { Invocation("get_account_balance", PyNone, NoFields, NoQuery, NoArgs) }
  \cup
  { Invocation("get_exchange_info", PyNone, NoFields, NoQuery, [NoArgs EXCEPT !.symbol = sy]) :
      sy \in {BTC, <<"B","T","C">>, <<"B","n","b">>, <<"D","O","G","E">>} }

\* The characters of the short texts: a lower-case and an upper-case letter,
\* a digit and a space
TextAlphabet == {"a", "Z", "1", " "}

\* Every text over TextAlphabet of length up to MaxTextLen
ShortTexts == UNION { [1..k -> TextAlphabet] : k \in 0..MaxTextLen }

\* n times the letter c
Repeat(c, n) == [i \in 1..n |-> c]

\* validate_symbol called directly: short texts, texts at the length limits,
\* and texts with punctuation or whitespace around
SymbolTexts ==
  ShortTexts
    \cup { Repeat("q", SymbolMaxLen), Repeat("Q", SymbolMaxLen + 1),
           Repeat("Q", SymbolMaxLen - 1) \o <<"7">>,
           <<" ">> \o Repeat("b", SymbolMaxLen) \o <<"\t">>,
           <<"B","-","T">>, <<"B","T","C","U","S","D","T">>, <<"b"," ","t">>,
           <<"B","T","_">>, <<"\t","e","t","h"," ">> }

\* validate_quantity called directly
QuantityTexts ==
  { <<"0">>, <<"0",".","0">>, <<"-","1">>, <<"-","0",".","5">>, <<"1">>,
    <<" ","2",".","5"," ">>, <<"+","3">>, <<".","5">>, <<"5",".">>,
    <<"0",".","0","0","0","0","0","0","0","1">>,
    <<"1","0","0","0","0","0","0">>, <<"1","0","0","0","0","0","0",".","0">>,
    <<"1","0","0","0","0","0","0",".","0","0","0","0","0","1">>,
    <<"1","0","0","0","0","0","1">>, <<"9","9","9","9","9","9",".","9">>,
    <<"n","a","n">>, <<"N","a","N">>, <<"-","n","a","n">>, <<"i","n","f">>,
    <<"-","i","n","f">>, <<"I","n","f","i","n","i","t","y">>,
    <<"a","b","c">>, <<>>, <<" ">>, <<"1",".","2",".","3">>, <<"1",",","5">>, <<"-">> }

\* validate_time_in_force called directly: None, or a str
TifValues ==
  { PyNone, PyStr(<<>>), PyStr(GTC), PyStr(<<"i","o","c">>), PyStr(<<" ","f","o","k","\t">>),
    PyStr(<<"d","a","y">>), PyStr(<<" ">>), PyStr(<<"G","T","C","X">>),
    PyStr(<<"N","o","n","e">>), PyStr(<<"g","t">>) }

\* The validators called directly
ValidatorCalls ==
  { Invocation("validate_symbol", PyNone, [NoFields EXCEPT !.symbol = PyStr(t)], NoQuery, NoArgs) :
      t \in SymbolTexts }
  \cup
  { Invocation("validate_quantity", PyNone, [NoFields EXCEPT !.quantity = PyStr(t)], NoQuery, NoArgs) :
      t \in QuantityTexts }
  \cup
  { Invocation("validate_time_in_force", PyNone, [NoFields EXCEPT !.tif = v], NoQuery, NoArgs) :
      v \in TifValues }

Invocations ==
  ValidatorCalls \cup
  WebPlaceObjects \cup WebPlaceOthers \cup WebGetOrders \cup WebBalances
    \cup CliPlaceOrders \cup CliGetOrders \cup ManagerCalls \cup ClientSessions \cup MethodCalls

\* The mapping a caller of get/post/delete holds before its first call
CallerMappings ==
  { <<>>,
    << <<"symbol", <<"str", Upper(BTC)>>>> >>,
    << <<"timestamp", <<"int", 7>>>>, <<"symbol", <<"str", Upper(BTC)>>>> >> }

Response(net, status, fmt, hasCode, code, hasMsg, msg, text) ==
  [net |-> net, status |-> status, fmt |-> fmt, hasCode |-> hasCode, code |-> code,
   hasMsg |-> hasMsg, msg |-> msg, text |-> text, items |-> <<>>, updateTime |-> Absent,
   human |-> <<>>]

\* A 200 response, an order, whose "updateTime" is v
Timed(v) ==
  [Response("", 200, "dict", FALSE, "", FALSE, "", "{\"orderId\": 1, \"updateTime\": ..}")
     EXCEPT !.updateTime = v]

\* An entry of the "assets" list (asset, walletBalance) or of the "symbols"
\* list (symbol) of a response
Entry(name, bal) == [name |-> name, bal |-> bal]

\* A 200 response whose "assets" / "symbols" list is items
Listing(items) ==
  [Response("", 200, "dict", FALSE, "", FALSE, "", "{\"assets\": [..], \"symbols\": [..]}")
     EXCEPT !.items = items]

\* What the exchange, or the network, answers to one request
Responses ==
  { Response("", 200, "dict", FALSE, "", FALSE, "", "{\"orderId\": 1}"),
    Response("", 200, "text", FALSE, "", FALSE, "", "<html>"),
    Response("", 400, "dict", TRUE, "-1121", TRUE, "Invalid symbol.",
             "{\"code\": -1121, \"msg\": \"Invalid symbol.\"}"),
    Response("", 401, "dict", TRUE, "-2015", FALSE, "", "{\"code\": -2015}"),
    Response("", 400, "dict", FALSE, "", TRUE, "Bad request.", "{\"msg\": \"Bad request.\"}"),
    Response("", 500, "dict", FALSE, "", FALSE, "", "{}"),
    Response("", 502, "text", FALSE, "", FALSE, "", "Bad Gateway"),
    Response("", 503, "list", FALSE, "", FALSE, "", "[]"),
    Response("", 404, "str", FALSE, "", FALSE, "", "\"not found\""),
    Response("", 429, "null", FALSE, "", FALSE, "", "null"),
    Response("ConnectionError", 0, "none", FALSE, "", FALSE, "", ""),
    Response("Timeout", 0, "none", FALSE, "", FALSE, "", ""),
    Listing(<< Entry(<<"U","S","D","T">>, PyStr(<<"0">>)),
               Entry(<<"B","N","B">>, PyStr(<<"1","2",".","5">>)),
               Entry(<<"E","T","H">>, Absent),
               Entry(<<"B","T","C">>, PyStr(<<"-","1">>)),
               Entry(<<"B","T","C">>, PyNum(<<"3">>)),
               Entry(<<"X","R","P">>, PyStr(<<"0",".","0","0">>)) >>),
    Timed(PyNum(<<"1","7","0","0","0","0","0","0","0","0","0","0","0">>)),
    Timed(PyNum(<<"9","5","1","7","8","2","3","9","9","9","9","9">>)),
    Timed(PyNum(<<"2","5","3","4","0","2","3","0","0","8","0","0","0","0","0">>)),
    Timed(PyNum(Repeat("9", 30))),
    Timed(PyStr(<<"x">>)),
    Timed(PyNone),
    Listing(<< Entry(<<"b","n","b">>, PyStr(<<"1">>)),
               Entry(<<"X","R","P">>, PyStr(<<"a","b","c">>)),
               Entry(<<"E","T","H">>, PyNone) >>) }

\* The clock (ms) when the run starts
StartTime == 1000

(***************************************************************************)
(* State.                                                                  *)
(***************************************************************************)
VARIABLES
  environ,   \* the process environment's credentials
  req,       \* the invocation being served
  pc,        \* "start", "ready" (client built), "waiting" (request sent), "done"
  client,    \* the client the invocation built, NoClient before
  wire,      \* the requests this invocation put on the wire, in order
  out,       \* the invocation's outcome
  pmap,      \* the mapping the caller of get/post/delete holds
  clock,     \* time in ms
  calls,     \* get/post/delete calls the caller has made
  answer,    \* what the exchange, or the network, answered last
  log,       \* the records the client's logger wrote in this invocation
  given,     \* the mapping the caller passed to its last get/post/delete
  configured, \* logging_config._configured
  handlers,  \* the root logger's handlers, in order
  lpc,       \* each thread's position in get_logger
  lcalls,    \* the get_logger calls each thread has returned from
  srv,       \* the web server's request threads: position, input and locals
  clients,   \* the client objects the request threads built
  store,     \* the parameter mappings the request threads built
  confirmed  \* the orders the user of the interactive menu confirmed, in order

\* The root logger and the threads that call get_logger
logging == <<configured, handlers, lpc, lcalls>>

\* The web server's threads and the objects they hold
server == <<srv, clients, store>>

\* The interactive menu's record of the user's confirmations
menu == <<confirmed>>

\* What a single invocation leaves alone
rest == <<logging, server, menu>>

vars == <<environ, req, pc, client, wire, out, pmap, clock, calls, answer, log, given, rest>>

\* The threads of the process
Threads == 1..MaxThreads

\* import of bot.logging_config: nothing configured, no call made
LoggingInit ==
  /\ configured = FALSE
  /\ handlers = <<>>
  /\ lpc = [t \in Threads |-> "idle"]
  /\ lcalls = [t \in Threads |-> 0]

\* The request threads of the web server
Requests == 1..MaxRequests

NoWire ==
  [method |-> "", endpoint |-> "", apikey |-> <<>>, signed |-> FALSE, params |-> <<>>, at |-> 0]

\* A thread of the server that handles no request
NoRequest ==
  [pc |-> "idle", f |-> NoFields, args |-> NoArgs, client |-> 0, mapping |-> 0,
   stamp |-> 0, sent |-> NoWire, status |-> 0]

\* The server started: no request accepted, no object built
ServerInit ==
  /\ srv = [t \in Requests |-> NoRequest]
  /\ clients = [t \in Requests |-> NoClient]
  /\ store = [t \in Requests |-> <<>>]

\* cli.py interactive: nothing confirmed yet
MenuInit == confirmed = <<>>

Init ==
  /\ environ \in Environments
  /\ req \in Invocations
  /\ pc = "start"
  /\ client = NoClient
  /\ wire = <<>>
  /\ out = NoOutcome
  /\ pmap \in IF req.op = "client" THEN CallerMappings ELSE {<<>>}
  /\ clock = StartTime
  /\ calls = 0
  /\ answer = NoResponse
  /\ log = <<>>
  /\ given = <<>>
  /\ LoggingInit
  /\ ServerInit
  /\ MenuInit

(***************************************************************************)
(* Actions.  A handler runs from its start to the request it sends, and    *)
(* from the exchange's answer to its end.                                  *)
(***************************************************************************)
ManagerOps == {"place_order", "get_order", "cancel_order"}

MethodOps == {"get_account_balance", "get_exchange_info"}

ValidatorOps == {"validate_symbol", "validate_quantity", "validate_time_in_force"}

OrderId == 42

\* The handler ends here with this outcome, nothing sent
EndWith(o) ==
  /\ pc' = "done"
  /\ out' = o
  /\ UNCHANGED <<rest, environ, req, client, wire, pmap, clock, calls, answer, log, given>>

\* logger.debug("GET %s params=%s", endpoint, self._mask_params(params))
RequestRecord(r) ==
  [kind |-> "request", method |-> r.wire.method, endpoint |-> r.wire.endpoint,
   params |-> r.logged, status |-> 0, text |-> ""]

\* logger.debug("Response %s: %s", response.status_code, response.text)
ResponseRecord(a) ==
  [kind |-> "response", method |-> "", endpoint |-> "", params |-> <<>>,
   status |-> a.status, text |-> a.text]

\* A sender that repeats the request: C11 tells it from the one session call
SendTwice(c, r) ==
  /\ pc' = "waiting"
  /\ client' = c
  /\ wire' = Append(Append(wire, r.wire), r.wire)
  /\ log' = Append(log, RequestRecord(r))
  /\ UNCHANGED <<rest, environ, req, out, pmap, clock, calls, answer, given>>

\* The handler sends request r through the client c it built and waits
SendWith(c, r) ==
  /\ pc' = "waiting"
  /\ client' = c
  /\ wire' = Append(wire, r.wire)
  /\ log' = Append(log, RequestRecord(r))
  /\ UNCHANGED <<rest, environ, req, out, pmap, clock, calls, answer, given>>

\* client.post of the order's parameters p, or the ValueError of place_order
PostOrder(c, p, now) ==
  IF p.exc # "" THEN Raise(p.exc, Request(c, "POST", "/fapi/v1/order", <<>>, TRUE, now))
  ELSE Ok(Request(c, "POST", "/fapi/v1/order", p.val, TRUE, now))

\* manager.place_order(**args) on client c: the request, or ValueError
PlaceOrder(c, args, now) ==
  PostOrder(c, OrderParams(args.symbol, args.side, args.order_type, args.quantity,
                           args.price, args.tif, args.stop_price), now)

\* A surface's answer to exception e: the web handlers' except clauses, the
\* CLI's sys.exit(1)
StatusOf(surface, e) == IF surface = "web" THEN WebStatus(e) ELSE 1

\* A surface's handler from the validation v to the request r it sends
\* through client c
Serve(v, c, r, surface) ==
  IF v.status # 0 THEN EndWith(Outcome(v.status, v.exc, NoErr, NoResponse))
  ELSE IF c.exc # "" THEN EndWith(Outcome(StatusOf(surface, c.exc), c.exc, NoErr, NoResponse))
  ELSE IF r.exc # "" THEN EndWith(Outcome(StatusOf(surface, r.exc), r.exc, NoErr, NoResponse))
  ELSE SendWith(c.val, r.val)

ServeOrder(v, c, surface) == Serve(v, c, PlaceOrder(c.val, v.args, clock), surface)

\* app.py api_place_order up to the request
WebPlaceOrder ==
  /\ pc = "start"
  /\ req.op = "web_place"
  /\ ServeOrder(WebValidate(req.body, req.f), NewClient(environ), "web")

ServeQuery(v, c, surface) ==
  Serve(v, c,
        Ok(Request(c.val, "GET", "/fapi/v1/order", OrderIdParams(v.symbol, v.order_id),
                   TRUE, clock)),
        surface)

\* app.py api_get_order up to the request
WebGetOrder ==
  /\ pc = "start"
  /\ req.op = "web_get_order"
  /\ ServeQuery(WebValidateQuery(req.q), NewClient(environ), "web")

ServeBalance(c) ==
  Serve([status |-> 0, exc |-> ""], c,
        Ok(Request(c.val, "GET", "/fapi/v2/account", <<>>, TRUE, clock)), "web")

\* app.py api_balance up to the request
WebBalance ==
  /\ pc = "start"
  /\ req.op = "web_balance"
  /\ ServeBalance(NewClient(environ))

\* cli.py place_order up to the request; every failure is exit status 1
CliPlaceOrder ==
  /\ pc = "start"
  /\ req.op = "cli_place"
  /\ ServeOrder(CliValidate(req.f), NewClient(environ), "cli")

\* cli.py order_status up to the request
CliOrderStatus ==
  /\ pc = "start"
  /\ req.op = "cli_get_order"
  /\ ServeQuery(CliValidateQuery(req.q), NewClient(environ), "cli")

\* The validator's result as the call's outcome
Returned(r) == EndWith(Outcome(0, r.exc, NoErr, r.val))

\* validate_symbol, validate_quantity or validate_time_in_force
ValidatorCall ==
  /\ pc = "start"
  /\ req.op \in ValidatorOps
  /\ Returned(CASE req.op = "validate_symbol" -> validate_symbol(req.f.symbol.s)
                [] req.op = "validate_quantity" -> validate_quantity(req.f.quantity.s)
                [] OTHER -> validate_time_in_force(req.f.tif))

Constructed(c) ==
  IF c.exc # "" THEN EndWith(Outcome(0, c.exc, NoErr, NoResponse))
  ELSE /\ pc' = "ready"
       /\ client' = c.val
       /\ UNCHANGED <<rest, environ, req, wire, out, pmap, clock, calls, answer, log, given>>

\* BinanceFuturesClient() by a caller of the client or of the order manager
Construct ==
  /\ pc = "start"
  /\ req.op \in ManagerOps \cup MethodOps \cup {"client"}
  /\ Constructed(NewClient(environ))

Placed(r) ==
  IF r.exc # "" THEN EndWith(Outcome(0, r.exc, NoErr, NoResponse))
  ELSE SendWith(client, r.val)

\* OrderManager.place_order, get_order or cancel_order up to the request
ManagerCall ==
  /\ pc = "ready"
  /\ req.op \in ManagerOps
  /\ IF req.op = "place_order" THEN Placed(PlaceOrder(client, req.args, clock))
     ELSE SendWith(client,
                   Request(client, IF req.op = "get_order" THEN "GET" ELSE "DELETE",
                           "/fapi/v1/order", OrderIdParams(req.args.symbol, OrderId),
                           TRUE, clock))

\* get_account_balance or get_exchange_info up to the request
MethodCall ==
  /\ pc = "ready"
  /\ req.op \in MethodOps
  /\ SendWith(client,
              IF req.op = "get_account_balance"
              THEN Request(client, "GET", "/fapi/v2/account", <<>>, TRUE, clock)
              ELSE Request(client, "GET", "/fapi/v1/exchangeInfo", <<>>, FALSE, clock))

\* The mapping of a caller that builds a new one for the call
FreshMapping == << <<"symbol", <<"str", Upper(BTC)>>>> >>

Called(r, held, now) ==
  /\ pc' = "waiting"
  /\ wire' = <<r.wire>>
  /\ log' = <<RequestRecord(r)>>
  /\ given' = (IF held THEN pmap ELSE FreshMapping)
  /\ pmap' = IF held THEN r.params ELSE pmap
  /\ clock' = now
  /\ calls' = calls + 1
  /\ out' = NoOutcome
  /\ answer' = NoResponse
  /\ UNCHANGED <<rest, environ, req, client>>

\* client.get, client.post or client.delete up to the request: with the
\* mapping the caller holds (changed in place when signed) or a new one
ClientCall ==
  /\ pc \in {"ready", "done"}
  /\ req.op = "client"
  /\ client # NoClient
  /\ calls < MaxCalls
  /\ \E method \in {"GET", "POST", "DELETE"}, signed \in BOOLEAN, held \in BOOLEAN :
       Called(Request(client, method, "/fapi/v1/order",
                      IF held THEN pmap ELSE FreshMapping,
                      signed, clock + 1),
              held, clock + 1)

\* session.get/post/delete and _handle_response on answer r: the call's
\* result, a value or an exception
Answer(r) ==
  IF r.net # "" THEN Raise(r.net, NoErr)
  ELSE HandleResponse(r)

\* The outcome by surface
Finished(op, exc, err, val) ==
  CASE op \in {"web_place", "web_get_order", "web_balance"} ->
         Outcome(IF exc = "" THEN 200 ELSE WebStatus(exc), exc, err, val)
    [] op \in {"cli_place", "cli_get_order"} ->
         Outcome(IF exc = "" THEN 0 ELSE 1, exc, err, val)
    [] OTHER -> Outcome(0, exc, err, val)

\* What the handler makes of the call's result: the surfaces go on with
\* result.get(..) or order.get(..), which need a mapping
\* cli.py _execute_and_print_order, lines 163-165: the text is printed, or
\* the exception of format_order_result leaves the command
Printed(op, order, text) ==
  IF text.exc # "" THEN Finished(op, text.exc, NoErr, NoResponse)
  ELSE Finished(op, "", NoErr, [order EXCEPT !.human = text.val])

Delivered(op, v) ==
  IF v.exc # "" THEN Finished(op, v.exc, NoErr, NoResponse)
  ELSE Finished(op, "", NoErr, v.val)

Finish(op, result) ==
  IF result.exc # "" THEN Finished(op, result.exc, result.val, NoResponse)
  ELSE IF op \in {"get_account_balance", "web_balance"}
  THEN Delivered(op, AccountBalance(result.val))
  ELSE IF op = "get_exchange_info"
  THEN Delivered(op, ExchangeInfo(result.val, req.args.symbol))
  ELSE IF op \notin ManagerOps \cup {"client"} /\ result.val.fmt # "dict"
  THEN Finished(op, "AttributeError", NoErr, NoResponse)
  ELSE IF op \in {"web_place", "web_get_order"}
  THEN Finished(op, "", NoErr, WithHumanTime(result.val))
  ELSE IF op \in {"cli_place", "cli_get_order"}
  THEN Printed(op, result.val, format_order_result(result.val))
  ELSE Finished(op, "", NoErr, result.val)

\* The exchange, or the network, answers the request sent; the handler ends
Respond ==
  /\ pc = "waiting"
  /\ \E r \in Responses :
       /\ answer' = r
       /\ out' = Finish(req.op, Answer(r))
       /\ pc' = "done"
       /\ log' = (IF r.net = "" THEN Append(log, ResponseRecord(r)) ELSE log)
  /\ UNCHANGED <<rest, environ, req, client, wire, pmap, clock, calls, given>>

Next ==
  \/ ValidatorCall
  \/ WebPlaceOrder
  \/ WebGetOrder
  \/ WebBalance
  \/ CliPlaceOrder
  \/ CliOrderStatus
  \/ Construct
  \/ ManagerCall
  \/ MethodCall
  \/ ClientCall
  \/ Respond

Spec == Init /\ [][Next]_vars

(***************************************************************************)
(* bot/logging_config.py: get_logger called by the threads of a process.   *)
(* A thread may be suspended between any two statements of                 *)
(* _configure_root_logger; nothing in the module holds a lock.             *)
(***************************************************************************)
\* A process that serves no single invocation, at the given position
ProcessAt(position) ==
  /\ environ \in Environments
  /\ req = Invocation("none", PyNone, NoFields, NoQuery, NoArgs)
  /\ pc = position
  /\ client = NoClient
  /\ wire = <<>>
  /\ out = NoOutcome
  /\ pmap = <<>>
  /\ clock = StartTime
  /\ calls = 0
  /\ answer = NoResponse
  /\ log = <<>>
  /\ given = <<>>

process == <<environ, req, pc, client, wire, out, pmap, clock, calls, answer, log, given>>

\* _configure_root_logger, lines 32-34: if _configured: return
AlreadyConfigured(flag) == flag

\* Logger.addHandler: the handler is appended unless the logger holds it
AddHandler(hs, h) ==
  IF \E i \in 1..Len(hs) : hs[i] = h THEN hs ELSE Append(hs, h)

\* The handler object of the given kind that thread t makes in its call
Handler(kind, t) == [kind |-> kind, thread |-> t, call |-> lcalls[t] + 1]

\* get_logger up to the guard of _configure_root_logger: the call returns
\* logging.getLogger(name) at once when the flag is set
LogEnter(t) ==
  /\ lpc[t] = "idle"
  /\ lcalls[t] < MaxLogCalls
  /\ IF AlreadyConfigured(configured)
     THEN /\ lcalls' = [lcalls EXCEPT ![t] = @ + 1]
          /\ UNCHANGED lpc
     ELSE /\ lpc' = [lpc EXCEPT ![t] = "making"]
          /\ UNCHANGED lcalls
  /\ UNCHANGED <<configured, handlers, process, server, menu>>

\* lines 37-59: the directory, the formatter and the two handlers
LogMake(t) ==
  /\ lpc[t] = "making"
  /\ lpc' = [lpc EXCEPT ![t] = "adding_file"]
  /\ UNCHANGED <<configured, handlers, lcalls, process, server, menu>>

\* line 63: root.addHandler(file_handler)
LogAddFile(t) ==
  /\ lpc[t] = "adding_file"
  /\ handlers' = AddHandler(handlers, Handler("file", t))
  /\ lpc' = [lpc EXCEPT ![t] = "adding_stream"]
  /\ UNCHANGED <<configured, lcalls, process, server, menu>>

\* line 64: root.addHandler(stream_handler)
LogAddStream(t) ==
  /\ lpc[t] = "adding_stream"
  /\ handlers' = AddHandler(handlers, Handler("stream", t))
  /\ lpc' = [lpc EXCEPT ![t] = "flagging"]
  /\ UNCHANGED <<configured, lcalls, process, server, menu>>

\* line 66 and get_logger's return: _configured = True
LogFlag(t) ==
  /\ lpc[t] = "flagging"
  /\ configured' = TRUE
  /\ lpc' = [lpc EXCEPT ![t] = "idle"]
  /\ lcalls' = [lcalls EXCEPT ![t] = @ + 1]
  /\ UNCHANGED <<handlers, process, server, menu>>

LogNext ==
  \E t \in Threads :
    \/ LogEnter(t)
    \/ LogMake(t)
    \/ LogAddFile(t)
    \/ LogAddStream(t)
    \/ LogFlag(t)

LogInit ==
  /\ ProcessAt("start")
  /\ LoggingInit
  /\ ServerInit
  /\ MenuInit

LogSpec == LogInit /\ [][LogNext]_vars

(***************************************************************************)
(* app.py served by a threaded server: POST /api/order handled by several  *)
(* threads at once.  A thread may be suspended between the statements that *)
(* touch an object another thread could reach: the client, the mapping,    *)
(* the clock.                                                              *)
(***************************************************************************)
\* The orders the server is sent
ServerOrders ==
  { Fields(PyStr(ETHUSDT), PyStr(<<"s","e","l","l">>), PyStr(STOP_LIMIT),
           PyStr(<<"2",".","5">>), PyStr(<<"3","0","0","0">>), Absent,
           PyStr(<<"2","9","5","0">>)),
    Fields(PyStr(BTCUSDT), PyStr(<<"B","U","Y">>), PyStr(LIMIT),
           PyNum(<<"0",".","0","1">>), PyNum(<<"5","0","0","0","0">>), PyStr(GTC), Absent),
    Fields(PyStr(BTC), PyStr(<<"h","o","l","d">>), PyStr(LIMIT),
           PyStr(<<"1">>), PyStr(<<"5">>), Absent, Absent) }

\* The exchange's answers to the server's requests
ServerResponses ==
  { Response("", 200, "dict", FALSE, "", FALSE, "", ""),
    Response("", 400, "dict", TRUE, "-2019", TRUE, "Margin is insufficient.", "") }

\* What the request threads leave alone
aside ==
  <<environ, req, pc, client, wire, out, pmap, calls, answer, log, given, logging, menu>>

\* One object for every thread: C22 tells it from the objects the handler
\* builds
FirstObject(t) == 1

\* The object a thread's handler builds is new: BinanceFuturesClient() in
\* _get_client, params: dict = {..} in place_order
OwnObject(t) == t

\* The thread's state after a step
At(t, position, fields) == [srv EXCEPT ![t] = [fields EXCEPT !.pc = position]]

\* The handler ends with the status it answers
Ended(t, status) ==
  /\ srv' = At(t, "done", [srv[t] EXCEPT !.status = status])
  /\ UNCHANGED <<clients, store, clock, aside>>

\* The server hands a request to a thread
SrvAccept(t) ==
  /\ srv[t].pc = "idle"
  /\ \E f \in ServerOrders : srv' = At(t, "start", [srv[t] EXCEPT !.f = f])
  /\ UNCHANGED <<clients, store, clock, aside>>

SrvValidated(t, v, c) ==
  IF v.status # 0 THEN Ended(t, v.status)
  ELSE IF c.exc # "" THEN Ended(t, WebStatus(c.exc))
  ELSE /\ clients' = [clients EXCEPT ![OwnObject(t)] = c.val]
       /\ srv' = At(t, "client", [srv[t] EXCEPT !.args = v.args, !.client = OwnObject(t)])
       /\ UNCHANGED <<store, clock, aside>>

\* api_place_order, lines 127-165: the checks and _get_client()
SrvStart(t) ==
  /\ srv[t].pc = "start"
  /\ SrvValidated(t, WebValidate(PyDict(7), srv[t].f), NewClient(environ))

SrvBuilt(t, p) ==
  IF p.exc # "" THEN Ended(t, WebStatus(p.exc))
  ELSE /\ store' = [store EXCEPT ![OwnObject(t)] = p.val]
       /\ srv' = At(t, "built", [srv[t] EXCEPT !.mapping = OwnObject(t)])
       /\ UNCHANGED <<clients, clock, aside>>

\* place_order, lines 63-88: the mapping of the order
SrvBuild(t) ==
  /\ srv[t].pc = "client"
  /\ SrvBuilt(t, OrderParams(srv[t].args.symbol, srv[t].args.side, srv[t].args.order_type,
                             srv[t].args.quantity, srv[t].args.price, srv[t].args.tif,
                             srv[t].args.stop_price))

\* _sign, line 93: params["timestamp"] = int(time.time() * 1000)
SrvStamp(t) ==
  /\ srv[t].pc = "built"
  /\ \E passed \in {0, 1} :
       /\ clock' = clock + passed
       /\ store' = [store EXCEPT ![srv[t].mapping] =
                      DictSet(@, "timestamp", <<"int", clock + passed>>)]
       /\ srv' = At(t, "stamped", [srv[t] EXCEPT !.stamp = clock + passed])
  /\ UNCHANGED <<clients, aside>>

\* _sign, lines 94-100: the digest of the mapping, put into the mapping
SrvSignature(t) ==
  /\ srv[t].pc = "stamped"
  /\ store' = [store EXCEPT ![srv[t].mapping] = SignStamped(clients[srv[t].client], @)]
  /\ srv' = At(t, "signed", srv[t])
  /\ UNCHANGED <<clients, clock, aside>>

\* post, lines 190-193: the session call with the thread's mapping
SrvSend(t) ==
  /\ srv[t].pc = "signed"
  /\ srv' = At(t, "sent",
               [srv[t] EXCEPT !.sent = Prepared(clients[srv[t].client], "POST", "/fapi/v1/order",
                                                store[srv[t].mapping], TRUE, clock).wire])
  /\ UNCHANGED <<clients, store, clock, aside>>

\* The exchange answers the thread's request; the handler ends
SrvRespond(t) ==
  /\ srv[t].pc = "sent"
  /\ \E r \in ServerResponses : Ended(t, Finish("web_place", Answer(r)).status)

ServerNext ==
  \E t \in Requests :
    \/ SrvAccept(t)
    \/ SrvStart(t)
    \/ SrvBuild(t)
    \/ SrvStamp(t)
    \/ SrvSignature(t)
    \/ SrvSend(t)
    \/ SrvRespond(t)

ServerStart ==
  /\ ProcessAt("start")
  /\ LoggingInit
  /\ ServerInit
  /\ MenuInit

ServerSpec == ServerStart /\ [][ServerNext]_vars

(***************************************************************************)
(* cli.py interactive: the menu loop.  A prompt asks again until its       *)
(* answer passes its check, so a task goes on with answers that passed.    *)
(***************************************************************************)
\* The user's answers to the prompts of [1] Place an order
MenuAnswers ==
  { Fields(PyStr(ETHUSDT), PyStr(<<"s","e","l","l">>), PyStr(STOP_LIMIT),
           PyStr(<<"2",".","5">>), PyStr(<<"3","0","0","0">>), PyStr(GTC),
           PyStr(<<"2","9","5","0">>)),
    Fields(PyStr(BTC), PyStr(<<" ","s","e","l","l">>), PyStr(<<"m","a","r","k","e","t">>),
           PyStr(<<"2",".","5">>), PyStr(<<>>), PyStr(<<>>), PyStr(<<>>)),
    Fields(PyStr(BTCUSDT), PyStr(<<"B","U","Y">>), PyStr(LIMIT),
           PyStr(<<"0",".","0","1">>), PyStr(<<"5","0","0","0","0">>), PyStr(<<"i","o","c">>),
           PyStr(<<>>)),
    Fields(PyStr(BTC), PyStr(<<"h","o","l","d">>), PyStr(LIMIT),
           PyStr(<<"1">>), PyStr(<<"5">>), PyStr(GTC), PyStr(<<>>)),
    Fields(PyStr(BTC), PyStr(<<"B","U","Y">>), PyStr(STOP_MARKET),
           PyStr(<<"1">>), PyStr(<<>>), PyStr(<<>>), PyStr(<<"a","b","c">>)) }

\* The user's answers to the prompts of [3] Check order status
MenuQueries ==
  { [symbol |-> PyStr(sy), order_id |-> PyStr(<<"4","2">>)] : sy \in {BTC, <<"B","1">>} }

\* lines 375-435 on the answers, each prompt's answer stripped; the price,
\* the stop price and the time in force are asked for the types that use
\* them
MenuValidateTyped(f, order_type) ==
  Validated(validate_symbol(Strip(f.symbol.s)),
            validate_side(Strip(f.side.s)),
            order_type,
            validate_quantity(Strip(f.quantity.s)),
            IF order_type.val \in {LIMIT, STOP_LIMIT}
            THEN validate_price(PyStr(Strip(f.price.s)), LIMIT) ELSE Ok(NoFloat),
            IF order_type.val \in {LIMIT, STOP_LIMIT}
            THEN validate_time_in_force(PyStr(Strip(f.tif.s))) ELSE Ok(GTC),
            IF order_type.val \in {STOP_MARKET, STOP_LIMIT}
            THEN CliStopPrice(PyStr(Strip(f.stop_price.s)), order_type.val) ELSE Ok(NoFloat),
            1, 1)

MenuValidate(f) == MenuValidateTyped(f, validate_order_type(Strip(f.type.s)))

\* What the menu loop leaves alone
beside == <<environ, pmap, clock, log, given, logging, server>>

\* A confirmation that places the order whatever the user answers: C23 tells
\* it from click.confirm
ProceedsAnyway(yes) == TRUE

\* line 445: click.confirm("Confirm and place this order?", default=False)
Proceeds(yes) == yes

\* The loop is back at the main menu ("continue", or the end of the body)
BackToMenu(o, a) ==
  /\ pc' = "menu"
  /\ out' = o
  /\ answer' = a
  /\ UNCHANGED <<client, wire, beside>>

\* The process ends: sys.exit(status), an exception nothing catches (status
\* 1), or the end of interactive_mode (status 0)
Exited(status, exc, a) ==
  /\ pc' = "exited"
  /\ out' = Outcome(status, exc, NoErr, NoResponse)
  /\ answer' = a
  /\ UNCHANGED <<client, wire, beside>>

\* A task of the menu sends the request r through the client c it made, or
\* ends the process when _make_client or the call's preparation fails
MenuSend(c, r) ==
  IF c.exc # "" THEN Exited(1, c.exc, answer)
  ELSE IF r.exc # "" THEN Exited(1, r.exc, answer)
  ELSE /\ pc' = "waiting"
       /\ client' = c.val
       /\ wire' = Append(wire, r.val.wire)
       /\ UNCHANGED <<out, answer, beside>>

\* A task that asks the exchange: _make_client, then a signed GET
MenuAsk(c, endpoint, params) ==
  MenuSend(c, Ok(Request(c.val, "GET", endpoint, params, TRUE, clock)))

\* [1] Place an order, lines 373-442: the prompts and the confirmation screen
MenuOrder ==
  /\ pc = "menu"
  /\ calls < MaxRounds
  /\ \E f \in MenuAnswers :
       /\ MenuValidate(f).status = 0
       /\ req' = Invocation("menu_place", PyNone, f, NoQuery, MenuValidate(f).args)
  /\ pc' = "confirm"
  /\ calls' = calls + 1
  /\ UNCHANGED <<client, wire, out, answer, confirmed, beside>>

\* lines 445-453: the user's answer to the confirmation, then _make_client
\* and _execute_and_print_order up to the request
MenuConfirm ==
  /\ pc = "confirm"
  /\ \E yes \in BOOLEAN :
       /\ confirmed' = (IF yes THEN Append(confirmed, req.args) ELSE confirmed)
       /\ IF Proceeds(yes)
          THEN MenuSend(NewClient(environ), PlaceOrder(NewClient(environ).val, req.args, clock))
          ELSE /\ pc' = "menu"
               /\ UNCHANGED <<client, wire, out, answer, beside>>
  /\ UNCHANGED <<req, calls>>

\* [2] Check account balance, lines 458-460
MenuBalance ==
  /\ pc = "menu"
  /\ calls < MaxRounds
  /\ req' = Invocation("menu_balance", PyNone, NoFields, NoQuery, NoArgs)
  /\ calls' = calls + 1
  /\ confirmed' = confirmed
  /\ MenuAsk(NewClient(environ), "/fapi/v2/account", <<>>)

\* [3] Check order status, lines 490-504
MenuStatus ==
  /\ pc = "menu"
  /\ calls < MaxRounds
  /\ \E q \in MenuQueries :
       /\ validate_symbol(Strip(q.symbol.s)).exc = ""
       /\ req' = Invocation("menu_status", PyNone, NoFields, q, NoArgs)
       /\ MenuAsk(NewClient(environ), "/fapi/v1/order",
                  OrderIdParams(validate_symbol(Strip(q.symbol.s)).val, OrderId))
  /\ calls' = calls + 1
  /\ confirmed' = confirmed

\* [4] Exit, lines 524-526
MenuExit ==
  /\ pc = "menu"
  /\ req' = Invocation("menu_exit", PyNone, NoFields, NoQuery, NoArgs)
  /\ pc' = "exited"
  /\ out' = NoOutcome
  /\ UNCHANGED <<client, wire, answer, calls, confirmed, beside>>

\* manager.format_order_result(result), called outside the try blocks
Shown(result) ==
  IF result.fmt # "dict" THEN Raise("AttributeError", <<>>)
  ELSE format_order_result(result)

\* The rest of the task once the call returned or raised
MenuAfter(op, r, result) ==
  CASE op = "menu_place" ->
         IF result.exc # "" THEN Exited(1, result.exc, r)
         ELSE IF Shown(result.val).exc # "" THEN Exited(1, Shown(result.val).exc, r)
         ELSE BackToMenu(Outcome(0, "", NoErr, result.val), r)
    [] op = "menu_status" ->
         IF result.exc # "" THEN BackToMenu(Outcome(0, result.exc, result.val, NoResponse), r)
         ELSE IF Shown(result.val).exc # "" THEN Exited(1, Shown(result.val).exc, r)
         ELSE BackToMenu(Outcome(0, "", NoErr, result.val), r)
    [] OTHER ->
         IF result.exc # "" THEN BackToMenu(Outcome(0, result.exc, result.val, NoResponse), r)
         ELSE BackToMenu(Delivered("menu_balance", AccountBalance(result.val)), r)

\* The exchange, or the network, answers the task's request
MenuRespond ==
  /\ pc = "waiting"
  /\ \E r \in Responses : MenuAfter(req.op, r, Answer(r))
  /\ UNCHANGED <<req, calls, confirmed>>

MenuNext ==
  \/ MenuOrder
  \/ MenuConfirm
  \/ MenuBalance
  \/ MenuStatus
  \/ MenuExit
  \/ MenuRespond

MenuStart ==
  /\ ProcessAt("menu")
  /\ LoggingInit
  /\ ServerInit
  /\ MenuInit

MenuSpec == MenuStart /\ [][MenuNext]_vars

(***************************************************************************)
(* Properties.                                                             *)
(***************************************************************************)
PlaceOps == {"web_place", "cli_place"}

WebOps == {"web_place", "web_get_order", "web_balance"}

\* The environment lacks a credential
CredentialMissing == GetEnv(environ.key) = <<>> \/ GetEnv(environ.secret) = <<>>

\* Each of the seven checks of POST /api/order, taken alone on the raw body
WebChecksPass(f) ==
  LET type == validate_order_type(PyText(Get(f.type, PyStr(<<>>))))
  IN /\ validate_symbol(PyText(Get(f.symbol, PyStr(<<>>)))).exc = ""
     /\ validate_side(PyText(Get(f.side, PyStr(<<>>)))).exc = ""
     /\ type.exc = ""
     /\ validate_quantity(PyText(Get(f.quantity, PyStr(<<>>)))).exc = ""
     /\ validate_price(TextOrNone(OrNone(Get(f.price, PyNone))),
                       IF type.val = STOP_LIMIT THEN LIMIT ELSE type.val).exc = ""
     /\ validate_time_in_force(PyStr(PyText(Get(f.tif, PyStr(GTC))))).exc = ""
     /\ WebStopPrice(type.val, OrNone(Get(f.stop_price, PyNone))).exc = ""

\* Each of the seven checks of cli.py place-order, taken alone on the options
CliChecksPass(f) ==
  LET type == validate_order_type(f.type.s)
  IN /\ validate_symbol(f.symbol.s).exc = ""
     /\ validate_side(f.side.s).exc = ""
     /\ type.exc = ""
     /\ validate_quantity(f.quantity.s).exc = ""
     /\ validate_price(f.price, IF type.val = STOP_LIMIT THEN LIMIT ELSE type.val).exc = ""
     /\ validate_time_in_force(f.tif).exc = ""
     /\ CliStopPrice(f.stop_price, type.val).exc = ""

ChecksPass ==
  IF req.op = "web_place" THEN WebChecksPass(req.f) ELSE CliChecksPass(req.f)

\* The outcome is an error result of the surface
ErrorResult ==
  IF req.op \in WebOps THEN out.status \in {400, 500, 502, 503} ELSE out.status = 1

\* C1: on both order-placement surfaces (CLI place-order, POST /api/order) a
\* request is on the wire only if the symbol, side, type, quantity, price,
\* time-in-force and stop-price checks all succeeded on the input; when one of
\* them fails the invocation ends with an error result and nothing was sent.
C1_NoRequestBeforeValidation ==
  req.op \in PlaceOps =>
    /\ wire # <<>> => ChecksPass
    /\ (pc # "start" /\ ~ChecksPass) => (pc = "done" /\ wire = <<>> /\ ErrorResult)

\* An order of either surface passed every check and is on the wire.
C1_Witness ==
  /\ req.op = "web_place"
  /\ pc = "waiting"
  /\ Len(wire) = 1
  /\ wire[1].method = "POST"

\* C2: with the API key or the API secret unset or empty no client is ever
\* built and nothing is ever sent, and an invocation that starts by building
\* the client ends at once with EnvironmentError; every request on the wire
\* was sent through a client whose key and secret are the environment's and
\* are both non-empty.
C2_NoRequestWithoutCredentials ==
  /\ CredentialMissing =>
       /\ client = NoClient
       /\ wire = <<>>
       /\ (req.op \in ManagerOps \cup MethodOps \cup {"client", "web_balance"}
             /\ pc # "start") =>
            (pc = "done" /\ out.exc = "EnvironmentError")
  /\ wire # <<>> =>
       /\ client.api_key # <<>>
       /\ client.api_secret # <<>>
       /\ client.api_key = GetEnv(environ.key)
       /\ client.api_secret = GetEnv(environ.secret)
       /\ \A i \in 1..Len(wire) : wire[i].apikey = client.api_key

\* The secret is set to the empty string and the constructor has raised.
C2_Witness ==
  /\ environ.secret = PyStr(<<>>)
  /\ req.op = "client"
  /\ pc = "done"
  /\ out.exc = "EnvironmentError"
  /\ wire = <<>>

\* The message the signature of wire request w was computed over
SignedMessage(w) == Lookup(w.params, "signature")[3]

\* C3: every signed request on the wire carries a timestamp and a signature,
\* and what is transmitted is exactly the string that was signed, which holds
\* the timestamp, followed by the signature over it.
C3_TransmittedIsSignedPlusSignature ==
  \A i \in 1..Len(wire) :
    wire[i].signed =>
      LET p == wire[i].params
          last == p[Len(p)]
          msg == SubSeq(p, 1, Len(p) - 1)
      IN /\ Len(p) >= 2
         /\ HasKey(p, "timestamp")
         /\ HasKey(p, "signature")
         /\ last[1] = "signature"
         /\ last[2][1] = "hmac"
         /\ last[2] = Hmac(client.api_secret, msg)
         /\ HasKey(msg, "timestamp")

\* C4: for every signed call, also one on a mapping the caller has used for
\* an earlier signed call, the string that is signed holds this call's
\* timestamp and holds no signature field.
C4_SignedStringHasNoSignature ==
  \A i \in 1..Len(wire) :
    (wire[i].signed /\ HasKey(wire[i].params, "signature")
       /\ Lookup(wire[i].params, "signature")[1] = "hmac") =>
      /\ HasKey(SignedMessage(wire[i]), "timestamp")
      /\ Lookup(SignedMessage(wire[i]), "timestamp") = <<"txt", IntText(wire[i].at)>>
      /\ ~HasKey(SignedMessage(wire[i]), "signature")

\* C5: a call answered with a status other than 200 fails with HTTPError
\* carrying the status, the body's code or "N/A" and the body's msg or the raw
\* text, whatever the body is.
C5_Non200IsRemoteError ==
  (req.op \in ManagerOps \cup {"client"} /\ pc = "done"
     /\ answer.fmt # "none" /\ answer.net = "" /\ answer.status # 200) =>
    /\ out.exc = "HTTPError"
    /\ out.err.status = answer.status
    /\ out.err.code = (IF answer.hasCode THEN answer.code ELSE "N/A")
    /\ out.err.msg = (IF answer.hasMsg THEN answer.msg ELSE answer.text)

\* The names place_order submits for an order of this type
NamesOf(type) ==
  {"symbol", "side", "type", "quantity"}
    \cup (IF type \in {LIMIT, STOP_LIMIT} THEN {"price", "timeInForce"} ELSE {})
    \cup (IF type \in {STOP_MARKET, STOP_LIMIT} THEN {"stopPrice"} ELSE {})

\* C6: the names of the parameters place_order submits, before signing, are
\* those of the order's type and no others, whatever price and stop price
\* the caller supplied.
C6_ParameterNamesByType ==
  (req.op = "place_order" /\ wire # <<>> /\ Upper(req.args.order_type) \in ValidTypes) =>
    /\ Len(wire) = 1
    /\ Keys(wire[1].params) \ {"timestamp", "signature"} = NamesOf(Upper(req.args.order_type))
    /\ Len(wire[1].params) = Cardinality(NamesOf(Upper(req.args.order_type))) + 2

\* A MARKET order given a price and a stop price went out.
C6_Witness ==
  /\ req.op = "place_order"
  /\ Upper(req.args.order_type) = MARKET
  /\ req.args.price.k = "fin"
  /\ req.args.stop_price.k = "fin"
  /\ Len(wire) = 1

\* The order lacks a price or a stop price its type needs
MissingRequired(args) ==
  \/ Upper(args.order_type) \in {LIMIT, STOP_LIMIT} /\ args.price.k = "none"
  \/ Upper(args.order_type) \in {STOP_MARKET, STOP_LIMIT} /\ args.stop_price.k = "none"

\* C7: place_order of a LIMIT order without price, of a STOP_MARKET order
\* without stop price or of a STOP_LIMIT order without either fails with
\* ValueError and sends nothing.
C7_MissingPriceFailsUnsent ==
  (req.op = "place_order" /\ MissingRequired(req.args)) =>
    /\ wire = <<>>
    /\ pc # "waiting"
    /\ (pc = "done" /\ client # NoClient) => out.exc = "ValueError"

\* A STOP_LIMIT order with a price and no stop price was refused.
C7_Witness ==
  /\ req.op = "place_order"
  /\ Upper(req.args.order_type) = STOP_LIMIT
  /\ req.args.price.k = "fin"
  /\ req.args.stop_price.k = "none"
  /\ pc = "done"
  /\ out.exc = "ValueError"

\* C8: a request of place_order reaches the network only if the type is one
\* of the four order types and the price and stop price supplied are exactly
\* those the type requires and allows.
C8_OnlyMatchingOrdersSent ==
  (req.op = "place_order" /\ wire # <<>>) =>
    /\ Upper(req.args.order_type) \in ValidTypes
    /\ req.args.price.k # "none" <=> Upper(req.args.order_type) \in {LIMIT, STOP_LIMIT}
    /\ req.args.stop_price.k # "none" <=> Upper(req.args.order_type) \in {STOP_MARKET, STOP_LIMIT}

\* C9: on the web surface a missing credential is answered with 503, and a
\* non-200 answer of the exchange (requests.HTTPError) and a network failure
\* are answered with 502.
C9_WebStatusByFailure ==
  (req.op \in WebOps /\ pc = "done") =>
    /\ out.exc = "EnvironmentError" => out.status = 503
    /\ out.exc = "HTTPError" => out.status = 502
    /\ out.exc \in {"ConnectionError", "Timeout"} => out.status = 502

\* C10: POST /api/order answers 400 whenever a check of the order fails or
\* the body is no JSON object, and GET /api/order answers 400 for an invalid
\* symbol or an order id that is no integer.
C10_MalformedInputIs400 ==
  /\ (req.op = "web_place" /\ pc = "done"
        /\ (~WebChecksPass(req.f) \/ req.body.t \notin {"dict"})) =>
       out.status = 400
  /\ (req.op = "web_get_order" /\ pc = "done"
        /\ (validate_symbol(Get(req.q.symbol, PyStr(<<>>)).s).exc # ""
              \/ ParseInt(Get(req.q.order_id, PyStr(<<>>)).s).exc # "")) =>
       out.status = 400

\* The exchange answered with a status other than 200, or the network failed
FailedAnswer(a) == a.net # "" \/ (a.fmt # "none" /\ a.status # 200)

\* C11: an invocation of get, post, delete, get_exchange_info,
\* get_account_balance, place_order, get_order or cancel_order (directly or
\* through a surface) has at most one request on the wire; once its request is
\* sent the next step ends it with no further request, and a non-200 answer
\* or a network failure ends it with an exception for the caller.
C11_OneRequestNoRetry ==
  [][ /\ Len(wire') <= 1
      /\ pc = "waiting" =>
           /\ pc' = "done"
           /\ wire' = wire
           /\ FailedAnswer(answer') => out'.exc # ""
    ]_vars

\* get_exchange_info was answered with a failure and ended after its one request.
C11_Witness ==
  /\ req.op = "get_exchange_info"
  /\ FailedAnswer(answer)
  /\ pc = "done"
  /\ Len(wire) = 1
  /\ out.exc = "HTTPError"

\* The order type the input declares, trimmed and upper-cased
DeclaredType(f) == Upper(Strip(PyText(Get(f.type, PyStr(<<>>)))))

\* The input supplies a value that is not null
Supplied(v) == v.t \notin {"absent", "none"}

\* The price or stop price supplied does not fit the declared type
PriceMismatch(f) ==
  \/ DeclaredType(f) \in {MARKET, STOP_MARKET} /\ Supplied(f.price)
  \/ DeclaredType(f) \in {LIMIT, STOP_LIMIT} /\ ~Supplied(f.price)
  \/ DeclaredType(f) \in {STOP_MARKET, STOP_LIMIT} /\ ~Supplied(f.stop_price)

\* C12: on both order-placement surfaces an input whose type is MARKET or
\* STOP_MARKET and that supplies a non-null price (0 and "" included), whose
\* type is LIMIT or STOP_LIMIT and that supplies no price, or whose type is
\* STOP_MARKET or STOP_LIMIT and that supplies no stop price, is rejected and
\* no order is sent.
C12_PriceMismatchRejected ==
  (req.op \in PlaceOps /\ pc # "start" /\ PriceMismatch(req.f)) =>
    /\ pc = "done"
    /\ wire = <<>>
    /\ ErrorResult

\* 0 < x <= 1,000,000 for a parsed number x
InQuantityRange(x) ==
  /\ x.k = "fin"
  /\ ~x.neg
  /\ x.ip > 0 \/ x.fp # <<>>
  /\ x.ip < 1000000 \/ (x.ip = 1000000 /\ x.fp = <<>>)

\* C13: validate_quantity returns the parsed number q when 0 < q <= 1,000,000
\* and fails with BadParameter for every other text: zero, a negative number,
\* a number above 1,000,000, text that does not parse, nan and inf.
C13_QuantityInRangeOrRejected ==
  (req.op = "validate_quantity" /\ pc = "done") =>
    IF ParseFloat(req.f.quantity.s).exc = "" /\ InQuantityRange(ParseFloat(req.f.quantity.s).val)
    THEN out.exc = "" /\ out.val = ParseFloat(req.f.quantity.s).val
    ELSE out.exc = "BadParameter"

\* The text consists of 2 to 20 letters A-Z
TwoToTwentyLetters(t) ==
  /\ Len(t) \in 2..20
  /\ \A i \in 1..Len(t) :
       t[i] \in {"A","B","C","D","E","F","G","H","I","J","K","L","M",
                 "N","O","P","Q","R","S","T","U","V","W","X","Y","Z"}

\* C14: for every input text validate_symbol returns the trimmed, upper-cased
\* text when that text consists of 2 to 20 letters A-Z, and fails with
\* BadParameter for every other input.
C14_SymbolPatternExactly ==
  (req.op = "validate_symbol" /\ pc = "done") =>
    IF TwoToTwentyLetters(Upper(Strip(req.f.symbol.s)))
    THEN out.exc = "" /\ out.val = Upper(Strip(req.f.symbol.s))
    ELSE out.exc = "BadParameter"

\* A lower-case symbol of 20 letters between whitespace was returned
\* upper-cased and trimmed.
C14_Witness ==
  /\ req.op = "validate_symbol"
  /\ pc = "done"
  /\ Len(req.f.symbol.s) = 22
  /\ out.exc = ""
  /\ out.val = [i \in 1..20 |-> "B"]

\* The time in force is omitted, null or the empty text
NoTif(v) == ~Supplied(v) \/ v = PyStr(<<>>)

\* The checks of the surface pass once the time in force is left out
PassesWithoutTif ==
  IF req.op = "web_place" THEN WebChecksPass([req.f EXCEPT !.tif = Absent])
  ELSE CliChecksPass([req.f EXCEPT !.tif = PyStr(GTC)])

\* C15: validate_time_in_force returns GTC for None and for the empty text,
\* and for any other text returns it trimmed and upper-cased when that is
\* GTC, IOC or FOK and fails otherwise; on both surfaces a LIMIT or STOP_LIMIT
\* order whose tif is omitted, empty or null goes out with timeInForce=GTC.
C15_TifDefaultsToGTC ==
  /\ (req.op = "validate_time_in_force" /\ pc = "done") =>
       IF NoTif(req.f.tif) THEN out.exc = "" /\ out.val = <<"G","T","C">>
       ELSE IF Upper(Strip(req.f.tif.s)) \in {<<"G","T","C">>, <<"I","O","C">>, <<"F","O","K">>}
       THEN out.exc = "" /\ out.val = Upper(Strip(req.f.tif.s))
       ELSE out.exc = "BadParameter"
  /\ (req.op \in PlaceOps /\ pc # "start" /\ NoTif(req.f.tif) /\ req.body.t \in {"dict", "none"}
        /\ DeclaredType(req.f) \in {LIMIT, STOP_LIMIT}
        /\ PassesWithoutTif /\ ~CredentialMissing) =>
       /\ Len(wire) = 1
       /\ HasKey(wire[1].params, "timeInForce")
       /\ Lookup(wire[1].params, "timeInForce") = <<"txt", <<"G","T","C">>>>

\* The entry's wallet balance is a number, or the text of one, above zero
HasPositiveBalance(e) ==
  /\ e.bal.t \in {"str", "num"}
  /\ ParseFloat(e.bal.s).exc = ""
  /\ ParseFloat(e.bal.s).val.k \in {"fin", "inf"}
  /\ ~ParseFloat(e.bal.s).val.neg
  /\ ParseFloat(e.bal.s).val.k = "fin" =>
       (ParseFloat(e.bal.s).val.ip > 0 \/ ParseFloat(e.bal.s).val.fp # <<>>)

\* Every wallet balance of the list is missing or is a number or its text
BalancesReadable(items) ==
  \A i \in 1..Len(items) :
    \/ items[i].bal.t = "absent"
    \/ items[i].bal.t \in {"str", "num"} /\ ParseFloat(items[i].bal.s).exc = ""

MatchesAnyCase(items, wanted) ==
  {i \in 1..Len(items) : Upper(items[i].name) = Upper(wanted)}

\* C17: get_exchange_info(symbol), answered 200 with a symbols list, returns
\* the first entry whose symbol equals the requested one irrespective of
\* letter case on either side, and fails with ValueError exactly when no
\* entry matches so.
C17_FirstMatchAnyCase ==
  (req.op = "get_exchange_info" /\ pc = "done"
     /\ answer.net = "" /\ answer.status = 200 /\ answer.fmt = "dict") =>
    IF MatchesAnyCase(answer.items, req.args.symbol) # {}
    THEN /\ out.exc = ""
         /\ out.val = answer.items[CHOOSE i \in MatchesAnyCase(answer.items, req.args.symbol) :
                                     \A j \in MatchesAnyCase(answer.items, req.args.symbol) : i <= j]
    ELSE out.exc = "ValueError"

\* The text is a moment written as YYYY-MM-DD HH:MM:SS UTC
LooksLikeUtc(t) ==
  /\ Len(t) = 23
  /\ SubSeq(t, 20, 23) = <<" ","U","T","C">>
  /\ t[5] = "-" /\ t[8] = "-" /\ t[11] = " " /\ t[14] = ":" /\ t[17] = ":"

\* C18: an order placed or queried with success (the exchange answered 200
\* with an order) is delivered as a success whatever its updateTime is
\* (missing, an integer, a number out of range, a string, null): by the CLI
\* (format_order_result) and by the web handlers, with the UTC text or, when
\* the conversion fails, with the raw value as text.
C18_UpdateTimeNeverFails ==
  (req.op \in {"cli_place", "web_place", "web_get_order"} /\ pc = "done"
     /\ answer.net = "" /\ answer.status = 200 /\ answer.fmt = "dict") =>
    /\ out.exc = ""
    /\ out.status = (IF req.op = "cli_place" THEN 0 ELSE 200)
    /\ \/ LooksLikeUtc(out.val.human)
       \/ out.val.human = PyText(Get(answer.updateTime, PyNum(<<"0">>)))

\* The value is a digest, or the text of one
IsDigest(v) == v[1] = "hmac"

\* C19: for every signed request the log record the client wrote for it
\* shows the placeholder in place of the signature, no record of the log holds
\* a signature's value, and the request on the wire still carries the real
\* signature.
C19_SignatureNotLogged ==
  /\ \A i \in 1..Len(log) : \A j \in 1..Len(log[i].params) :
       ~IsDigest(log[i].params[j][2])
  /\ \A i \in 1..Len(wire) :
       wire[i].signed =>
         /\ Len(log) >= 1
         /\ log[1].kind = "request"
         /\ Keys(log[1].params) = Keys(wire[i].params)
         /\ HasKey(log[1].params, "signature")
         /\ Lookup(log[1].params, "signature") = <<"str", <<"*","*","*">>>>
         /\ IsDigest(Lookup(wire[i].params, "signature"))
         /\ Lookup(wire[i].params, "signature")[2] = client.api_secret

\* A second signed call on the mapping the caller holds was logged with the
\* placeholder and answered.
C19_Witness ==
  /\ req.op = "client"
  /\ calls = 2
  /\ pc = "done"
  /\ wire[1].signed
  /\ given # <<>> /\ HasKey(given, "signature")
  /\ Len(log) = 2
  /\ Lookup(log[1].params, "signature") = <<"str", <<"*","*","*">>>>

\* C20: a get, post or delete call with signed=false puts on the wire exactly
\* the parameters it was given, adds no timestamp and no signature, and
\* leaves the caller's mapping as it was.
C20_UnsignedPassesUnchanged ==
  [][ (req.op = "client" /\ pc # "waiting" /\ pc' = "waiting" /\ ~wire'[1].signed) =>
        /\ given' \in {pmap, FreshMapping}
        /\ Len(wire'[1].params) = Len(given')
        /\ \A j \in 1..Len(given') :
             /\ wire'[1].params[j][1] = given'[j][1]
             /\ wire'[1].params[j][2] = UrlEncode(given')[j][2]
        /\ pmap' = pmap
    ]_vars

\* An unsigned call passed on a mapping that holds the timestamp and the
\* signature of an earlier signed call.
C20_Witness ==
  /\ req.op = "client"
  /\ calls = 2
  /\ pc = "waiting"
  /\ ~wire[1].signed
  /\ given = pmap
  /\ HasKey(given, "signature")
  /\ Len(wire[1].params) = 3

\* The parameters of a request as they were before _sign: without the
\* timestamp and the signature
BeforeSigning(p) == SelectSeq(p, LAMBDA e : e[1] \notin {"timestamp", "signature"})

\* The order read from the request: the symbol it names on either surface or
\* in a direct call of place_order
OrderSymbol ==
  IF req.op \in PlaceOps THEN Get(req.f.symbol, PyStr(<<>>)).s
  ELSE IF req.op = "place_order" THEN req.args.symbol
  ELSE <<>>

\* symbol=ETHUSDT, side=SELL, type=STOP_LIMIT, quantity=2.5, price=3000,
\* stopPrice=2950, timeInForce=GTC
StopLimitSubmission ==
  << <<"symbol", <<"txt", <<"E","T","H","U","S","D","T">>>>>>,
     <<"side", <<"txt", <<"S","E","L","L">>>>>>,
     <<"type", <<"txt", STOP_LIMIT>>>>,
     <<"quantity", <<"txt", <<"2",".","5">>>>>>,
     <<"price", <<"txt", <<"3","0","0","0">>>>>>,
     <<"stopPrice", <<"txt", <<"2","9","5","0">>>>>>,
     <<"timeInForce", <<"txt", GTC>>>> >>

\* symbol=BTCUSDT, side=BUY, type=LIMIT, quantity=0.01, price=50000,
\* timeInForce=GTC
LimitSubmission ==
  << <<"symbol", <<"txt", BTCUSDT>>>>,
     <<"side", <<"txt", <<"B","U","Y">>>>>>,
     <<"type", <<"txt", LIMIT>>>>,
     <<"quantity", <<"txt", <<"0",".","0","1">>>>>>,
     <<"price", <<"txt", <<"5","0","0","0","0">>>>>>,
     <<"timeInForce", <<"txt", GTC>>>> >>

\* C21: the STOP_LIMIT order ethusdt / sell / "2.5" / "3000" / "2950" with no
\* tif is submitted, before signing, as exactly symbol=ETHUSDT, side=SELL,
\* type=STOP_LIMIT, quantity=2.5, price=3000, stopPrice=2950, timeInForce=GTC,
\* and the LIMIT order BTCUSDT / BUY / 0.01 / 50000 / GTC as exactly those six
\* fields with those values.
C21_NormalizedOrderSubmitted ==
  (req.op \in PlaceOps \cup {"place_order"} /\ ~CredentialMissing
     /\ pc \in {"waiting", "done"}) =>
     /\ OrderSymbol = ETHUSDT =>
          Len(wire) = 1 /\ BeforeSigning(wire[1].params) = StopLimitSubmission
     /\ OrderSymbol = BTCUSDT =>
          Len(wire) = 1 /\ BeforeSigning(wire[1].params) = LimitSubmission

\* The operations of the two surfaces that validate their input
CheckedOps == PlaceOps \cup {"web_get_order", "cli_get_order"}

\* The input passes every check of its handler, each taken alone
InputValid ==
  CASE req.op = "web_place" ->
         (Truthy(req.body) => req.body.t = "dict") /\ WebChecksPass(req.f)
    [] req.op = "cli_place" -> CliChecksPass(req.f)
    [] req.op = "web_get_order" ->
         /\ validate_symbol(Get(req.q.symbol, PyStr(<<>>)).s).exc = ""
         /\ ParseInt(Get(req.q.order_id, PyStr(<<>>)).s).exc = ""
    [] OTHER ->
         /\ validate_symbol(req.q.symbol.s).exc = ""
         /\ ParseInt(req.q.order_id.s).exc = ""

\* The outcome is the surface's report of a validation failure
ValidationReported ==
  IF req.op \in WebOps THEN out.status = 400
  ELSE out.status \in {1, 2} /\ out.exc = "BadParameter"

\* The outcome is the surface's report of a configuration failure
ConfigurationReported ==
  /\ out.exc = "EnvironmentError"
  /\ out.status = (IF req.op \in WebOps THEN 503 ELSE 1)

\* C25: on both surfaces an invalid order or order query submitted while a
\* credential is missing is reported as a validation failure (HTTP 400, the
\* CLI's validation error), never as a configuration failure, and a
\* configuration failure is reported only for input that passed validation.
C25_ValidationBeforeConfiguration ==
  (req.op \in CheckedOps /\ pc = "done") =>
     /\ (CredentialMissing /\ ~InputValid) => ValidationReported
     /\ ConfigurationReported => InputValid

\* The handlers of the given kind that the root logger holds
HandlersOf(kind) == { i \in 1..Len(handlers) : handlers[i].kind = kind }

\* No get_logger call is under way and one at least has returned
LoggingSettled ==
  /\ \A t \in Threads : lpc[t] = "idle"
  /\ \E t \in Threads : lcalls[t] > 0

\* C24: after any number of get_logger calls, in any order and with first
\* calls made by several threads at the same time, the root logger holds
\* exactly one rotating file handler and one stream handler of this module.
C24_RootConfiguredOnce ==
  LoggingSettled =>
    /\ Cardinality(HandlersOf("file")) = 1
    /\ Cardinality(HandlersOf("stream")) = 1

\* The parameters the handler of thread t builds from the thread's own
\* input, signed with the environment's secret at the time the thread read
OwnSigned(t) ==
  UrlEncode(Sign(NewClient(environ).val,
                 OrderParams(srv[t].args.symbol, srv[t].args.side, srv[t].args.order_type,
                             srv[t].args.quantity, srv[t].args.price, srv[t].args.tif,
                             srv[t].args.stop_price).val,
                 srv[t].stamp))

\* C22: when the web server handles several requests at once, each request
\* works on its own client and its own mapping: under every interleaving the
\* order fields, the timestamp and the signature transmitted for a request
\* are those built for that request alone, and a client's credentials stay
\* as its construction set them.  The transmission is examined in the state
\* the send leaves (the response step does not touch what was sent).
C22_RequestsIsolated ==
  \A t \in Requests :
    /\ srv[t].pc = "sent" =>
         /\ srv[t].sent # NoWire
         /\ srv[t].args = WebValidate(PyDict(7), srv[t].f).args
         /\ srv[t].sent.params = OwnSigned(t)
         /\ srv[t].sent.apikey = GetEnv(environ.key)
    /\ srv[t].client # 0 => clients[srv[t].client] = NewClient(environ).val
    /\ \A u \in Requests \ {t} :
         /\ srv[t].client # 0 => srv[u].client # srv[t].client
         /\ srv[t].mapping # 0 => srv[u].mapping # srv[t].mapping

\* A request was stamped, signed and sent while another thread, handling a
\* different order, was suspended between its timestamp and its signature.
C22_Witness ==
  /\ srv[1].pc = "stamped"
  /\ srv[2].pc = "sent"
  /\ srv[1].f # srv[2].f
  /\ srv[1].stamp < srv[2].stamp
  /\ HasKey(srv[2].sent.params, "signature")

\* The step puts an order-placement request on the wire
OrderSent == Len(wire') > Len(wire) /\ wire'[Len(wire')].method = "POST"

\* The parameters the order shown on the confirmation screen is placed with
ShownOrder ==
  UrlEncode(OrderParams(req.args.symbol, req.args.side, req.args.order_type,
                        req.args.quantity, req.args.price, req.args.tif,
                        req.args.stop_price).val)

\* C23: in interactive mode an order-placement request is sent only from the
\* confirmation screen, on the user's positive answer, and for the order the
\* screen shows; a negative answer returns to the main menu with no client
\* constructed and no request sent.
C23_ConfirmedBeforeSent ==
  [][ /\ OrderSent =>
           /\ pc = "confirm"
           /\ confirmed' = Append(confirmed, req.args)
           /\ BeforeSigning(wire'[Len(wire')].params) = ShownOrder
      /\ (pc = "confirm" /\ confirmed' = confirmed) =>
           /\ pc' = "menu"
           /\ wire' = wire
           /\ client' = client
    ]_vars

\* The user declined a first order, then confirmed a second one, which was
\* sent.
C23_Witness ==
  /\ req.op = "menu_place"
  /\ pc = "waiting"
  /\ calls = 2
  /\ confirmed = <<req.args>>
  /\ Len(wire) = 1
  /\ wire[1].method = "POST"

\* The step starts a task that needs a client
NeedsClient ==
  \/ pc = "menu" /\ req'.op \in {"menu_balance", "menu_status"}
  \/ pc = "confirm" /\ confirmed' # confirmed

\* C26: in the interactive menu loop a failed balance or order-status request
\* returns to the main menu, a failed order placement or a missing credential
\* ends the process with exit status 1, and without such a failure the loop
\* ends only when the user picks choice 4.
C26_MenuLoopEnds ==
  [][ /\ (pc = "waiting" /\ req.op \in {"menu_balance", "menu_status"}
             /\ Answer(answer').exc # "") => pc' = "menu"
      /\ (pc = "waiting" /\ req.op = "menu_place" /\ Answer(answer').exc # "") =>
           pc' = "exited" /\ out'.status = 1
      /\ (NeedsClient /\ CredentialMissing) => pc' = "exited" /\ out'.status = 1
      /\ (pc # "exited" /\ pc' = "exited") =>
           \/ pc = "menu" /\ req'.op = "menu_exit" /\ out'.status = 0
           \/ out'.status = 1 /\ NeedsClient /\ CredentialMissing
           \/ out'.status = 1 /\ pc = "waiting" /\ req.op = "menu_place"
                /\ Answer(answer').exc # ""
    ]_vars

====
